---- MODULE Spec2Model ----
(***************************************************************************)
(* xltable: tables of data and formulas that are placed on worksheets and  *)
(* whose symbolic references are resolved to spreadsheet addresses when    *)
(* the workbook is exported.                                               *)
(*                                                                         *)
(* Python values are modelled as follows.                                  *)
(*   - None is the string None where a name or a sheet is expected and the *)
(*     empty tuple where a label is expected.                              *)
(*   - a raised exception is the record Err(<exception class>), a normal   *)
(*     return is Ok(<value>).                                              *)
(*   - a dict is the sequence of its items in insertion order.             *)
(*   - a row or column label is the tuple of its levels: a plain Index     *)
(*     holds 1-tuples, a MultiIndex of depth d holds d-tuples.             *)
(*   - a cell of a grid is a tagged record: Num(n), Str(s) or Empty.       *)
(***************************************************************************)
EXTENDS Integers, Sequences, FiniteSets, TLC

VARIABLES
    worksheets,        \* Workbook.worksheets: sheet names in registration order
    tables,            \* Worksheet.__tables of every worksheet
    values,            \* Worksheet.__values of every worksheet
    next_row,          \* Worksheet.__next_row of every worksheet
    active_table,      \* Workbook.active_table
    active_worksheet,  \* Workbook.active_worksheet
    sheet_iter,        \* the suspended Workbook.itersheets generator
    charts,            \* Worksheet.__charts of every worksheet
    styles,            \* the CellStyle objects made so far
    formula_values,    \* Worksheet.__formula_values of every worksheet
    last               \* the last call made by the caller and what it returned

vars == <<worksheets, tables, values, next_row, active_table, active_worksheet,
          sheet_iter, charts, styles, formula_values, last>>

----------------------------------------------------------------------------
(* Bounds of the model.                                                    *)

MaxCol == 704
MaxRow == 2
MaxTop == 2
MaxLeft == 1
MaxSpaces == 1
MaxDataRows == 3
MaxDataCols == 3
MaxDepth == 2

----------------------------------------------------------------------------
(* Python values.                                                          *)

None == "None"

\* None where a row or column label is expected
NoLabel == <<>>

Ok(v) == [ok |-> TRUE, val |-> v]

Err(e) == [ok |-> FALSE, err |-> e]

Num(n) == [k |-> "num", v |-> n]

Str(s) == [k |-> "str", s |-> s]

Bool(b) == [k |-> "bool", v |-> b]

Empty == [k |-> "none"]

Max(a, b) == IF a >= b THEN a ELSE b

----------------------------------------------------------------------------
(* expression.py: address arithmetic.                                      *)

Letters == <<"A", "B", "C", "D", "E", "F", "G", "H", "I", "J", "K", "L", "M",
             "N", "O", "P", "Q", "R", "S", "T", "U", "V", "W", "X", "Y", "Z">>

\* the remainder-26 digit taken without the 1-based correction
LetterOfZeroBased(col) == Letters[(col % 26) + 1]

\* chr(A + ((col - 1) % 26))
LetterOf(col) == Letters[((col - 1) % 26) + 1]

RECURSIVE ColumnLettersPlainBase26(_, _)
\* the loop dividing col itself, as for a base-26 number with a zero digit
ColumnLettersPlainBase26(col, addr) ==
    IF col > 0
    THEN ColumnLettersPlainBase26(col \div 26, LetterOf(col) \o addr)
    ELSE addr

RECURSIVE ColumnLetters(_, _)
\* the while loop of _to_addr; col is already incremented by one
ColumnLetters(col, addr) ==
    IF col > 0
    THEN ColumnLetters((col - 1) \div 26, LetterOf(col) \o addr)
    ELSE addr

_to_addr(worksheet, row, col, fixed) ==
    LET addr == ColumnLetters(col + 1, "")
        prefix == IF worksheet # None /\ worksheet # ""
                  THEN "'" \o worksheet \o "'!" ELSE ""
    IN  IF fixed
        THEN prefix \o "$" \o addr \o "$" \o ToString(row + 1)
        ELSE prefix \o addr \o ToString(row + 1)

----------------------------------------------------------------------------
(* expression.py: the expression tree.  An expression is a record tagged   *)
(* by its class; a table name of None means the table the expression is in.*)

Cell(col, row, row_offset, table) ==
    [kind |-> "Cell", col |-> col, row |-> row, row_offset |-> row_offset,
     table |-> table]

Column(col, include_header, table) ==
    [kind |-> "Column", col |-> col, include_header |-> include_header,
     table |-> table]

Index(include_header, table) ==
    [kind |-> "Index", include_header |-> include_header, table |-> table]

Range(left_col, right_col, top_row, bottom_row, include_header, table) ==
    [kind |-> "Range", left_col |-> left_col, right_col |-> right_col,
     top |-> top_row, bottom |-> bottom_row, include_header |-> include_header,
     table |-> table]

Formula(name, args) == [kind |-> "Formula", name |-> name, args |-> args]

BinOp(lhs, rhs, op) == [kind |-> "BinOp", lhs |-> lhs, rhs |-> rhs, op |-> op]

ConstExpr(value) == [kind |-> "ConstExpr", value |-> value]

\* a table cell holding an Expression
Expr(e) == [k |-> "expr", e |-> e]

IsExpr(x) == x.k = "expr"

\* Expression._strip: re.sub("^\((.*)\)$", r"\1", x)
_strip(x) ==
    IF Len(x) >= 2 /\ SubSeq(x, 1, 1) = "(" /\ SubSeq(x, Len(x), Len(x)) = ")"
    THEN SubSeq(x, 2, Len(x) - 1)
    ELSE x

----------------------------------------------------------------------------
(* expression.py: the value an expression may carry.  An expression that   *)
(* was given a value has the field value, a number Num(n), a string        *)
(* Str(s), None (Empty) or another expression; Python's operators are      *)
(* modelled on integers, strings and None as Python 3 defines them.        *)

\* isinstance(x, Expression)
IsExpression(x) == "kind" \in DOMAIN x

\* x is None
IsNone(x) == "k" \in DOMAIN x /\ x.k = "none"

\* Expression.__init__(value=v), lines 18-20: the value is stored unless None
WithValue(e, v) == IF IsNone(v) THEN e ELSE [value |-> v] @@ e

RECURSIVE has_value(_)
\* Expression.has_value, lines 71-79
has_value(e) ==
    IF "value" \notin DOMAIN e THEN FALSE
    ELSE IF IsExpression(e.value) THEN has_value(e.value)
    ELSE TRUE

RECURSIVE Expression_value(_)
\* Expression.value, lines 58-69: 0 when no value was set
Expression_value(e) ==
    IF "value" \notin DOMAIN e THEN Num(0)
    ELSE IF IsExpression(e.value) THEN Expression_value(e.value)
    ELSE e.value

\* a float, the quotient num / den
Float(num, den) == [k |-> "float", num |-> num, den |-> den]

\* the keys of BinOp.__operators, lines 249-262
Operators == {"+", "-", "*", "/", ">", "<", "<=", ">=", "!=", "=", "&", "|"}

RECURSIVE BitAnd(_, _)
\* a & b of two integers >= 0
BitAnd(a, b) ==
    IF a = 0 \/ b = 0 THEN 0
    ELSE 2 * BitAnd(a \div 2, b \div 2) + (IF a % 2 = 1 /\ b % 2 = 1 THEN 1 ELSE 0)

RECURSIVE BitOr(_, _)
\* a | b of two integers >= 0
BitOr(a, b) ==
    IF a = 0 THEN b
    ELSE IF b = 0 THEN a
    ELSE 2 * BitOr(a \div 2, b \div 2) + (IF a % 2 = 1 \/ b % 2 = 1 THEN 1 ELSE 0)

RECURSIVE LexLess(_, _)
\* a < b of two strings of capital letters
LexLess(a, b) ==
    IF Len(b) = 0 THEN FALSE
    ELSE IF Len(a) = 0 THEN TRUE
    ELSE IF SubSeq(a, 1, 1) = SubSeq(b, 1, 1)
    THEN LexLess(SubSeq(a, 2, Len(a)), SubSeq(b, 2, Len(b)))
    ELSE (CHOOSE k \in 1..26 : Letters[k] = SubSeq(a, 1, 1))
         < (CHOOSE k \in 1..26 : Letters[k] = SubSeq(b, 1, 1))

RECURSIVE Repeat(_, _)
\* s * n
Repeat(s, n) == IF n <= 0 THEN "" ELSE s \o Repeat(s, n - 1)

\* operator.<op>(a, b) of two integers
OfIntegers(op, a, b) ==
    CASE op = "+" -> Ok(Num(a + b))
      [] op = "-" -> Ok(Num(a - b))
      [] op = "*" -> Ok(Num(a * b))
      [] op = "/" -> IF b = 0 THEN Err("ZeroDivisionError") ELSE Ok(Float(a, b))
      [] op = ">" -> Ok(Bool(a > b))
      [] op = "<" -> Ok(Bool(a < b))
      [] op = "<=" -> Ok(Bool(a <= b))
      [] op = ">=" -> Ok(Bool(a >= b))
      [] op = "!=" -> Ok(Bool(a # b))
      [] op = "=" -> Ok(Bool(a = b))
      [] op = "&" -> Ok(Num(BitAnd(a, b)))
      [] op = "|" -> Ok(Num(BitOr(a, b)))

\* operator.<op>(a, b) of two strings
OfStrings(op, a, b) ==
    CASE op = "+" -> Ok(Str(a \o b))
      [] op = ">" -> Ok(Bool(LexLess(b, a)))
      [] op = "<" -> Ok(Bool(LexLess(a, b)))
      [] op = "<=" -> Ok(Bool(~LexLess(b, a)))
      [] op = ">=" -> Ok(Bool(~LexLess(a, b)))
      [] op = "!=" -> Ok(Bool(a # b))
      [] op = "=" -> Ok(Bool(a = b))
      [] OTHER -> Err("TypeError")

\* operator.<op> of a string s and an integer n, in either order
OfStringAndInteger(op, s, n) ==
    CASE op = "*" -> Ok(Str(Repeat(s, n)))
      [] op = "!=" -> Ok(Bool(TRUE))
      [] op = "=" -> Ok(Bool(FALSE))
      [] OTHER -> Err("TypeError")

\* operator.<op> with None on one side or on both
OfNone(op, both) ==
    CASE op = "!=" -> Ok(Bool(~both))
      [] op = "=" -> Ok(Bool(both))
      [] OTHER -> Err("TypeError")

\* self.__operators[op](lhs.value, rhs.value): what the operator returns or raises
Apply(op, a, b) ==
    CASE a.k = "num" /\ b.k = "num" -> OfIntegers(op, a.v, b.v)
      [] a.k = "str" /\ b.k = "str" -> OfStrings(op, a.s, b.s)
      [] a.k = "str" /\ b.k = "num" -> OfStringAndInteger(op, a.s, b.v)
      [] a.k = "num" /\ b.k = "str" -> OfStringAndInteger(op, b.s, a.v)
      [] a.k = "none" \/ b.k = "none" -> OfNone(op, a.k = "none" /\ b.k = "none")

\* line 270: self.value = v, or the exception that left the constructor
Folded(lhs, rhs, op, v) ==
    IF v.ok THEN Ok([value |-> v.val] @@ BinOp(lhs, rhs, op)) ELSE v

\* BinOp.__init__(lhs, rhs, op), lines 264-270: the object made, or the
\* exception raised
BinOp_init(lhs, rhs, op) ==
    IF has_value(lhs) /\ has_value(rhs)
    THEN Folded(lhs, rhs, op, Apply(op, Expression_value(lhs), Expression_value(rhs)))
    ELSE Ok(BinOp(lhs, rhs, op))

----------------------------------------------------------------------------
(* table.py: a Table is the record of its name, its DataFrame (columns,    *)
(* index, cells) and its layout flags; id stands for the object's identity.*)

IsMulti(depth) == depth > 1

\* Table.header_height without the MultiIndex case
header_height_single(t) == IF t.include_columns THEN 1 ELSE 0

header_height(t) ==
    IF t.include_columns
    THEN IF IsMulti(t.col_depth) THEN t.col_depth ELSE 1
    ELSE 0

row_labels_width(t) ==
    IF t.include_index
    THEN IF IsMulti(t.idx_depth) THEN t.idx_depth ELSE 1
    ELSE 0

width(t) == Len(t.columns) + row_labels_width(t)

height(t) == Len(t.index) + header_height(t)

\* Index.get_loc answering 0 for a label that is absent
get_loc_or_first(labels, label) ==
    IF \E i \in 1..Len(labels) : labels[i] = label
    THEN Ok((CHOOSE i \in 1..Len(labels) :
                labels[i] = label /\ \A j \in 1..(i - 1) : labels[j] # label) - 1)
    ELSE Ok(0)

\* Index.get_loc: the 0-based position of a label, KeyError when absent
get_loc(labels, label) ==
    IF \E i \in 1..Len(labels) : labels[i] = label
    THEN Ok((CHOOSE i \in 1..Len(labels) :
                labels[i] = label /\ \A j \in 1..(i - 1) : labels[j] # label) - 1)
    ELSE Err("KeyError")

get_column_offset(t, col) ==
    LET loc == get_loc(t.columns, col)
    IN  IF loc.ok THEN Ok(loc.val + row_labels_width(t)) ELSE Err("KeyError")

get_index_offset(t) == IF t.include_index THEN Ok(0) ELSE Err("KeyError")

get_row_offset(t, row) ==
    LET loc == get_loc(t.index, row)
    IN  IF loc.ok THEN Ok(loc.val + header_height(t)) ELSE Err("KeyError")

----------------------------------------------------------------------------
(* worksheet.py: the table registry of a worksheet.  An item of __tables   *)
(* is [name, table, row, col]; it also remembers how the table was added   *)
(* (has_row, row_spaces), which no operation reads.                        *)

HasKey(items, name) == \E i \in 1..Len(items) : items[i].name = name

ItemOf(items, name) == items[CHOOSE i \in 1..Len(items) : items[i].name = name]

\* Worksheet.get_table: self.__tables[tablename]
Worksheet_get_table(wb, ws, tablename) ==
    IF HasKey(wb.tables[ws], tablename)
    THEN Ok(ItemOf(wb.tables[ws], tablename).table)
    ELSE Err("KeyError")

\* Worksheet.get_table_pos: self.__tables[tablename]
get_table_pos(wb, ws, tablename) ==
    IF HasKey(wb.tables[ws], tablename)
    THEN Ok([row |-> ItemOf(wb.tables[ws], tablename).row,
             col |-> ItemOf(wb.tables[ws], tablename).col])
    ELSE Err("KeyError")

----------------------------------------------------------------------------
(* workbook.py: table lookup.  wb is the workbook as the lookup sees it:   *)
(* [none, worksheets, tables, active_table, active_worksheet]; none is     *)
(* TRUE when the caller passed no workbook.                                *)

NoTable == [id |-> None]

NoWorkbook == [none |-> TRUE]

Found(table, ws) == Ok([table |-> table, worksheet |-> ws])

RECURSIVE StripQuotes(_)
\* str.strip("'")
StripQuotes(x) ==
    IF Len(x) >= 1 /\ SubSeq(x, 1, 1) = "'" THEN StripQuotes(SubSeq(x, 2, Len(x)))
    ELSE IF Len(x) >= 1 /\ SubSeq(x, Len(x), Len(x)) = "'"
         THEN StripQuotes(SubSeq(x, 1, Len(x) - 1))
         ELSE x

\* index of the first "!" of a name, 0 when there is none
FirstBang(name) ==
    IF \E i \in 1..Len(name) : SubSeq(name, i, i) = "!"
    THEN CHOOSE i \in 1..Len(name) :
            /\ SubSeq(name, i, i) = "!"
            /\ \A j \in 1..(i - 1) : SubSeq(name, j, j) # "!"
    ELSE 0

\* lines 154-162 without the identity test of line 157: the first worksheet
\* with a table of the active table's name
ScanForFirstOfName(wb) ==
    LET hit(i) == Worksheet_get_table(wb, wb.worksheets[i], wb.active_table.name).ok
    IN  IF \E i \in 1..Len(wb.worksheets) : hit(i)
        THEN LET i == CHOOSE i \in 1..Len(wb.worksheets) :
                          hit(i) /\ \A j \in 1..(i - 1) : ~hit(j)
             IN  Found(Worksheet_get_table(wb, wb.worksheets[i],
                                           wb.active_table.name).val,
                       wb.worksheets[i])
        ELSE Err("RuntimeError")

\* lines 154-162: the worksheet holding this very table object
ScanForActiveTable(wb) ==
    LET hit(i) == LET r == Worksheet_get_table(wb, wb.worksheets[i], wb.active_table.name)
                  IN  r.ok /\ r.val.id = wb.active_table.id
    IN  IF \E i \in 1..Len(wb.worksheets) : hit(i)
        THEN LET i == CHOOSE i \in 1..Len(wb.worksheets) :
                          hit(i) /\ \A j \in 1..(i - 1) : ~hit(j)
             IN  Found(wb.active_table, wb.worksheets[i])
        ELSE Err("RuntimeError")

\* lines 178-186: the first worksheet, in registration order, with the name
ScanForName(wb, name) ==
    LET hit(i) == Worksheet_get_table(wb, wb.worksheets[i], name).ok
    IN  IF \E i \in 1..Len(wb.worksheets) : hit(i)
        THEN LET i == CHOOSE i \in 1..Len(wb.worksheets) :
                          hit(i) /\ \A j \in 1..(i - 1) : ~hit(j)
             IN  Found(Worksheet_get_table(wb, wb.worksheets[i], name).val,
                       wb.worksheets[i])
        ELSE Err("KeyError")

\* lines 165-171 taking the table name alone, on whichever worksheet has it
LookupQualifiedAnySheet(wb, name) ==
    ScanForName(wb, StripQuotes(SubSeq(name, FirstBang(name) + 1, Len(name))))

\* lines 165-171: a name qualified as sheet!table
LookupQualified(wb, name) ==
    LET b == FirstBang(name)
        ws_name == StripQuotes(SubSeq(name, 1, b - 1))
        table_name == StripQuotes(SubSeq(name, b + 1, Len(name)))
    IN  IF \E i \in 1..Len(wb.worksheets) : wb.worksheets[i] = ws_name
        THEN LET r == Worksheet_get_table(wb, ws_name, table_name)
             IN  IF r.ok THEN Found(r.val, ws_name) ELSE r
        ELSE Err("KeyError")

\* lines 173-186
LookupUnqualified(wb, name) ==
    IF wb.active_worksheet # None
    THEN LET r == Worksheet_get_table(wb, wb.active_worksheet, name)
         IN  IF r.ok THEN Found(r.val, wb.active_worksheet) ELSE r
    ELSE ScanForName(wb, name)

\* lines 145-162
LookupActive(wb) ==
    IF wb.active_table = NoTable
    THEN Err("AssertionError")
    ELSE IF wb.active_worksheet # None
         THEN LET r == Worksheet_get_table(wb, wb.active_worksheet,
                                           wb.active_table.name)
              IN  IF ~r.ok THEN r
                  ELSE IF r.val.id # wb.active_table.id THEN Err("AssertionError")
                  ELSE Found(r.val, wb.active_worksheet)
         ELSE ScanForActiveTable(wb)

\* Workbook.get_table
Workbook_get_table(wb, name) ==
    IF wb.none THEN Err("AttributeError")
    ELSE IF name = None THEN LookupActive(wb)
    ELSE IF FirstBang(name) > 0 THEN LookupQualified(wb, name)
    ELSE LookupUnqualified(wb, name)

----------------------------------------------------------------------------
(* expression.py: resolve.  (row, col) is what the caller passes: for a    *)
(* table cell, its position inside the table's grid.  Each resolve is      *)
(* split where the code binds a local: what get_table returned (found),    *)
(* then the position and the offsets, then the address.                    *)

\* "'%s'!%s:%s" % (worksheet.name, first, last)
RangeAddr(ws, top_left, bottom_right) ==
    "'" \o ws \o "'!" \o top_left \o ":" \o bottom_right

\* line 120 taking the data row, not the row offset by the table's top
CellAddressTableLocal(e, ws, pos, c, r) ==
    IF ~pos.ok THEN pos
    ELSE IF ~c.ok THEN c
    ELSE IF ~r.ok THEN r
    ELSE Ok(_to_addr(ws, r.val + e.row_offset, pos.val.col + c.val,
                     e.row # NoLabel))

\* lines 112-120: the address, or the first exception of get_table_pos,
\* get_column_offset and get_row_offset
CellAddress(e, ws, pos, c, r) ==
    IF ~pos.ok THEN pos
    ELSE IF ~c.ok THEN c
    ELSE IF ~r.ok THEN r
    ELSE Ok(_to_addr(ws, pos.val.row + r.val + e.row_offset,
                     pos.val.col + c.val, e.row # NoLabel))

\* lines 111-120 given what workbook.get_table returned or raised
CellIn(e, wb, row, found) ==
    IF ~found.ok THEN found
    ELSE CellAddress(e, found.val.worksheet,
                     get_table_pos(wb, found.val.worksheet, found.val.table.name),
                     get_column_offset(found.val.table, e.col),
                     IF e.row # NoLabel
                     THEN get_row_offset(found.val.table, e.row)
                     ELSE Ok(row))

\* Cell.resolve
CellResolve(e, wb, row, col) ==
    CellIn(e, wb, row, Workbook_get_table(wb, e.table))

\* lines 139-145 and 162-168: the range of one column of the table, c its
\* offset
ColumnAddress(e, ws, table, pos, c) ==
    IF ~pos.ok THEN pos
    ELSE IF ~c.ok THEN c
    ELSE Ok(RangeAddr(ws,
            _to_addr(None,
                     pos.val.row + (IF e.include_header THEN 0
                                    ELSE header_height(table)),
                     pos.val.col + c.val, TRUE),
            _to_addr(None, pos.val.row + height(table) - 1,
                     pos.val.col + c.val, TRUE)))

\* lines 138-145 given what workbook.get_table returned or raised
ColumnIn(e, wb, found) ==
    IF ~found.ok THEN found
    ELSE ColumnAddress(e, found.val.worksheet, found.val.table,
                       get_table_pos(wb, found.val.worksheet, found.val.table.name),
                       get_column_offset(found.val.table, e.col))

\* Column.resolve
ColumnResolve(e, wb, row, col) ==
    ColumnIn(e, wb, Workbook_get_table(wb, e.table))

\* lines 161-168 given what workbook.get_table returned or raised
IndexIn(e, wb, found) ==
    IF ~found.ok THEN found
    ELSE ColumnAddress(e, found.val.worksheet, found.val.table,
                       get_table_pos(wb, found.val.worksheet, found.val.table.name),
                       get_index_offset(found.val.table))

\* Index.resolve
IndexResolve(e, wb, row, col) ==
    IndexIn(e, wb, Workbook_get_table(wb, e.table))

\* lines 200-217: the range between two corners, or the first exception
RangeAddress(ws, pos, lc, rc, tr, br) ==
    IF ~pos.ok THEN pos
    ELSE IF ~lc.ok THEN lc
    ELSE IF ~rc.ok THEN rc
    ELSE IF ~tr.ok THEN tr
    ELSE IF ~br.ok THEN br
    ELSE Ok(RangeAddr(ws,
            _to_addr(None, pos.val.row + tr.val, pos.val.col + lc.val, TRUE),
            _to_addr(None, pos.val.row + br.val, pos.val.col + rc.val, TRUE)))

\* lines 199-217 given what workbook.get_table returned or raised
RangeIn(e, wb, found) ==
    IF ~found.ok THEN found
    ELSE RangeAddress(found.val.worksheet,
                      get_table_pos(wb, found.val.worksheet, found.val.table.name),
                      get_column_offset(found.val.table, e.left_col),
                      get_column_offset(found.val.table, e.right_col),
                      IF e.top = NoLabel
                      THEN Ok(IF e.include_header THEN 0
                              ELSE header_height(found.val.table))
                      ELSE get_row_offset(found.val.table, e.top),
                      IF e.bottom = NoLabel
                      THEN Ok(height(found.val.table) - 1)
                      ELSE get_row_offset(found.val.table, e.bottom))

\* Range.resolve
RangeResolve(e, wb, row, col) ==
    RangeIn(e, wb, Workbook_get_table(wb, e.table))

\* ConstExpr.resolve
ConstResolve(e) ==
    IF e.value.k = "str" THEN Ok("\"" \o e.value.s \o "\"")
    ELSE IF e.value.k = "bool" THEN Ok(IF e.value.v THEN "TRUE" ELSE "FALSE")
    ELSE Ok(ToString(e.value.v))

\* _make_expr
_make_expr(x) == IF "kind" \in DOMAIN x THEN x ELSE ConstExpr(x)

RECURSIVE JoinComma(_)
\* ",".join(args)
JoinComma(args) ==
    IF Len(args) = 0 THEN ""
    ELSE IF Len(args) = 1 THEN args[1]
    ELSE args[1] \o "," \o JoinComma(Tail(args))

\* the first failure of a sequence of results, or the sequence of their values
AllOk(results) ==
    IF \E i \in 1..Len(results) : ~results[i].ok
    THEN results[CHOOSE i \in 1..Len(results) :
                    ~results[i].ok /\ \A j \in 1..(i - 1) : results[j].ok]
    ELSE Ok([i \in 1..Len(results) |-> results[i].val])

\* line 240: self._strip(...) of what an argument resolved to
Stripped(r) == IF r.ok THEN Ok(_strip(r.val)) ELSE r

\* line 242: "%s(%s)" % (name, ",".join(args))
FormulaText(name, args) ==
    IF args.ok THEN Ok(name \o "(" \o JoinComma(args.val) \o ")") ELSE args

\* lines 273-276: "(%s%s%s)" % (lhs, op, rhs), the left operand first
BinOpText(op, l, r) ==
    IF ~l.ok THEN l
    ELSE IF ~r.ok THEN r
    ELSE Ok("(" \o l.val \o op \o r.val \o ")")

RECURSIVE resolve(_, _, _, _)
\* Expression.resolve, by class
resolve(e, wb, row, col) ==
    CASE e.kind = "Cell" -> CellResolve(e, wb, row, col)
      [] e.kind = "Column" -> ColumnResolve(e, wb, row, col)
      [] e.kind = "Index" -> IndexResolve(e, wb, row, col)
      [] e.kind = "Range" -> RangeResolve(e, wb, row, col)
      [] e.kind = "ConstExpr" -> ConstResolve(e)
      [] e.kind = "Formula" ->
            \* Formula.resolve: to_arg on every argument, in order
            FormulaText(e.name,
                AllOk([i \in 1..Len(e.args) |->
                         IF e.args[i] = Empty THEN Ok("")
                         ELSE Stripped(resolve(_make_expr(e.args[i]), wb, row, col))]))
      [] e.kind = "BinOp" ->
            BinOpText(e.op, resolve(e.lhs, wb, row, col),
                      resolve(e.rhs, wb, row, col))

\* line 56 keeping the parentheses: "=" + ...
AsFormulaUnstripped(r) == IF r.ok THEN Ok("=" \o r.val) ELSE r

\* line 56: "=" + self._strip(...)
AsFormula(r) == IF r.ok THEN Ok("=" \o _strip(r.val)) ELSE r

\* Expression.get_formula
get_formula(e, wb, row, col) == AsFormula(resolve(e, wb, row, col))

----------------------------------------------------------------------------
(* table.py: Table.get_data.  The returned numpy array is the record       *)
(* [shape, rows]: shape is (number of rows, number of columns) and rows    *)
(* the sequence of its rows.                                               *)

Value(value, style) == [k |-> "value", value |-> value, style |-> style]

\* a label, or a tuple of level names, as the cells of its levels
LabelCells(label) == [i \in 1..Len(label) |-> Str(label[i])]

\* a name or None as a cell
NameCell(name) == IF name = None THEN Empty ELSE Str(name)

RECURSIVE UniqueName(_, _, _, _)
\* lines 250-254: the index name, suffixed until it is no row label
UniqueName(name, base, labels, i) ==
    IF \E k \in 1..Len(labels) : labels[k] = <<name>>
    THEN UniqueName(base \o "_" \o ToString(i), base, labels, i + 1)
    ELSE name

RECURSIVE UniqueNames(_, _, _, _)
\* lines 239-243: the tuple of index names, suffixed until it is no row label
UniqueNames(names, base, labels, i) ==
    IF \E k \in 1..Len(labels) : labels[k] = names
    THEN UniqueNames([l \in 1..Len(base) |-> base[l] \o "_" \o ToString(i)],
                     base, labels, i + 1)
    ELSE names

\* x or ""
OrEmpty(name) == IF name = None THEN "" ELSE name

\* lines 236-257: the row labels of the returned frame, one tuple of cells each
NewIndex(t) ==
    LET labels == [i \in 1..Len(t.index) |-> LabelCells(t.index[i])]
    IN  IF ~t.include_columns THEN labels
        ELSE IF IsMulti(t.idx_depth)
        THEN LET base == [l \in 1..t.idx_depth |-> OrEmpty(t.index_names[l])]
                 names == LabelCells(UniqueNames(base, base, t.index, 1))
                 blank == [l \in 1..t.idx_depth |-> Empty]
                 blanks == IF IsMulti(t.col_depth)
                           THEN [i \in 1..(t.col_depth - 1) |-> blank] ELSE <<>>
             IN  blanks \o <<names>> \o labels
        ELSE LET name == t.index_names[1]
                 unique == IF name = None THEN Empty
                           ELSE Str(UniqueName(name, name, t.index, 1))
                 blanks == IF IsMulti(t.col_depth)
                           THEN [i \in 1..(t.col_depth - 1) |-> <<Empty>>] ELSE <<>>
             IN  blanks \o <<(<<unique>>)>> \o labels

\* lines 259-281: the column labels of the returned frame
NewColumns(t) ==
    LET labels == [i \in 1..Len(t.columns) |-> LabelCells(t.columns[i])]
    IN  IF ~t.include_index THEN labels
        ELSE IF IsMulti(t.col_depth)
        THEN LET base == [l \in 1..t.col_depth |-> OrEmpty(t.columns_names[l])]
                 names == LabelCells(UniqueNames(base, base, t.columns, 1))
                 blank == [l \in 1..t.col_depth |-> Empty]
                 blanks == IF IsMulti(t.idx_depth)
                           THEN [i \in 1..(t.idx_depth - 1) |-> blank] ELSE <<>>
             IN  blanks \o <<names>> \o labels
        ELSE LET name == OrEmpty(t.columns_names[1])
                 base == IF t.columns_names[1] = None THEN "None"
                         ELSE t.columns_names[1]
                 unique == Str(UniqueName(name, base, t.columns, 1))
                 blanks == IF IsMulti(t.idx_depth)
                           THEN [i \in 1..(t.idx_depth - 1) |-> <<Empty>>] ELSE <<>>
             IN  blanks \o <<(<<unique>>)>> \o labels

\* line 226: the string stored back into the frame
AsCell(f) == IF f.ok THEN Ok(Str(f.val)) ELSE f

\* lines 215-224: the formula of the expression in data cell (r, c), 0-based
ResolveCell(t, wb, r, c) ==
    IF IsExpr(t.cells[r + 1][c + 1])
    THEN AsCell(get_formula(t.cells[r + 1][c + 1].e, wb, r + header_height(t),
                            c + row_labels_width(t)))
    ELSE Ok(t.cells[r + 1][c + 1])

\* lines 229-230
Unwrap(x) == IF x.k = "value" THEN x.value ELSE x

\* lines 226-300: the returned array, from the n x m resolved cells res and
\* the row and column labels of the reindexed frame, or the first exception
Reindexed(n, m, res, index, columns) ==
    LET \* applymap goes through the frame column by column
        failed == {<<c, r>> \in (1..m) \X (1..n) : ~res[r][c].ok}
        first == CHOOSE p \in failed :
                    \A q \in failed : p[1] < q[1] \/ (p[1] = q[1] /\ p[2] <= q[2])
        extra_rows == Len(index) - n
        extra_cols == Len(columns) - m
        cell(i, j) ==
            IF j <= extra_cols THEN index[i][j]
            ELSE IF i <= extra_rows THEN columns[j][i]
            ELSE Unwrap(res[i - extra_rows][j - extra_cols].val)
    IN  IF failed # {} THEN res[first[2]][first[1]]
        ELSE Ok([shape |-> <<Len(index), Len(columns)>>,
                 rows |-> [i \in 1..Len(index) |->
                            [j \in 1..Len(columns) |-> cell(i, j)]]])

\* lines 196-300: the body of get_data under the try
get_data_body(t, wb) ==
    Reindexed(Len(t.index), Len(t.columns),
              [r \in 1..Len(t.index) |->
                 [c \in 1..Len(t.columns) |-> ResolveCell(t, wb, r - 1, c - 1)]],
              NewIndex(t), NewColumns(t))

\* Table.get_data: the value returned or the exception raised
get_data(t, wb) ==
    get_data_body(t, IF wb.none THEN wb ELSE [wb EXCEPT !.active_table = t])

\* ArrayFormula(name, formula, width, height): a Table over a frame of
\* height x width cells of None, columns and rows labelled 0, 1, ..., no
\* header and no index, that also keeps its formula and value = None
ArrayFormula(name, formula, w, h) ==
    [id |-> name,
     name |-> name,
     columns |-> [c \in 1..w |-> <<ToString(c - 1)>>],
     index |-> [r \in 1..h |-> <<ToString(r - 1)>>],
     col_depth |-> 1, idx_depth |-> 1,
     columns_names |-> <<None>>, index_names |-> <<None>>,
     cells |-> [r \in 1..h |-> [c \in 1..w |-> Empty]],
     include_columns |-> FALSE, include_index |-> FALSE,
     formula |-> formula, value |-> None]

\* isinstance(table, ArrayFormula)
IsArrayFormula(t) == "formula" \in DOMAIN t

\* line 355: self.dataframe[:] = "{%s}" % f
Filled(t, f) ==
    [t EXCEPT !.cells = [r \in 1..Len(t.index) |->
                           [c \in 1..Len(t.columns) |-> Str("{" \o f \o "}")]]]

\* line 356 on the table as line 355 left it: [result, table]
ArrayData(t, wb) == [result |-> get_data(t, wb), table |-> t]

\* lines 354-356 given what self.formula.get_formula returned or raised
ArrayFilled(t, wb, f) ==
    IF t.value # None THEN ArrayData(t, wb)
    ELSE IF ~f.ok THEN [result |-> f, table |-> t]
    ELSE ArrayData(Filled(t, f.val), wb)

\* ArrayFormula.get_data(workbook, row, col): what it returns or raises and
\* the table with the frame it leaves
ArrayFormula_get_data(t, wb, row, col) ==
    ArrayFilled(t, wb, get_formula(t.formula, wb, row, col))

\* line 136 of worksheet.py, table.get_data(workbook, row, col,
\* self.__formula_values): Table.get_data takes the fourth argument,
\* ArrayFormula.get_data(self, workbook, row, col) does not
get_data_with_formula_values(t, wb) ==
    IF IsArrayFormula(t) THEN Err("TypeError") ELSE get_data(t, wb)

----------------------------------------------------------------------------
(* worksheet.py: Worksheet.iterrows.  The generator computes the whole     *)
(* grid before its first yield, so it is one step: the rows it yields (or  *)
(* the exception it raises) and the table registry it leaves behind.       *)

\* d[key] = item
SetItem(items, item) ==
    IF HasKey(items, item.name)
    THEN [i \in 1..Len(items) |->
            IF items[i].name = item.name THEN item ELSE items[i]]
    ELSE Append(items, item)

\* del d[key]
DelItem(items, name) == SelectSeq(items, LAMBDA x : x.name # name)

RECURSIVE MaxOver(_, _)
\* the running max(...) of a loop over a sequence of numbers, from start
MaxOver(start, nums) ==
    IF Len(nums) = 0 THEN start
    ELSE MaxOver(Max(start, Head(nums)), Tail(nums))

\* lines 148-150: the width grows with a value's row, the height with its column
ValueExtents(vals, max_height, max_width) ==
    [max_height |-> MaxOver(max_height, [i \in 1..Len(vals) |-> vals[i].col + 1]),
     max_width |-> MaxOver(max_width, [i \in 1..Len(vals) |-> vals[i].row + 1])]

\* lines 159-166: what table[r][c] = value stores for the free-standing value
\* v, f being what get_formula returned or raised for it
Overlay(v, value, f, max_height, max_width) ==
    IF ~f.ok THEN f
    ELSE IF v.row >= max_height \/ v.col >= max_width THEN Err("IndexError")
    ELSE Ok(IF IsExpr(value) THEN Str(f.val) ELSE value)

\* lines 159-166
OverlayValue(v, wb, max_height, max_width) ==
    Overlay(v, Unwrap(v.value),
            IF IsExpr(Unwrap(v.value))
            THEN get_formula(Unwrap(v.value).e, wb, v.row, v.col)
            ELSE Ok(""),
            max_height, max_width)

\* the registry while the k-th table of the pass is materialized (line 135)
RegistryDuring(items, k) ==
    SetItem(IF k = 1 THEN items ELSE DelItem(items, None),
            [items[k] EXCEPT !.name = None])

\* lines 139-146: the height all the tables need
TablesHeight(items, datas) ==
    MaxOver(0, [k \in 1..Len(items) |-> items[k].row + datas[k].val.shape[1]])

\* line 144 without the max: the width of the table handled last
TablesWidthOfLast(items, datas) ==
    IF Len(items) = 0 THEN 0
    ELSE items[Len(items)].col + datas[Len(items)].val.shape[2]

\* lines 139-146: the width all the tables need
TablesWidth(items, datas) ==
    MaxOver(0, [k \in 1..Len(items) |-> items[k].col + datas[k].val.shape[2]])

\* the data cells of table t, (r, c) counted from 0
DataCells(t) == (0..(Len(t.index) - 1)) \X (0..(Len(t.columns) - 1))

\* table.py lines 215-224: the data cells applymap got to, column by column,
\* when the formula of one of them raised
ReachedCells(t, wb) ==
    LET failed == {p \in DataCells(t) : ~ResolveCell(t, wb, p[1], p[2]).ok}
    IN  {p \in DataCells(t) :
            \A q \in failed : p[2] < q[2] \/ (p[2] = q[2] /\ p[1] <= q[1])}

\* table.py lines 220-223: the key (r + row, c + col) of data cell (r, c) of
\* the table registered as item
FormulaValueKey(item, r, c) ==
    <<r + header_height(item.table) + item.row,
      c + row_labels_width(item.table) + item.col>>

\* table.py lines 222-223: what the cells of the table write into the dict
TableWrites(item, cells) ==
    {[key |-> FormulaValueKey(item, p[1], p[2]),
      value |-> Expression_value(item.table.cells[p[1] + 1][p[2] + 1].e)] :
        p \in {q \in cells :
                 /\ IsExpr(item.table.cells[q[1] + 1][q[2] + 1])
                 /\ has_value(item.table.cells[q[1] + 1][q[2] + 1].e)}}

\* lines 159-164: what the first upto free-standing values write into the dict
ValueWrites(vals, upto) ==
    {[key |-> <<vals[i].row, vals[i].col>>,
      value |-> Expression_value(Unwrap(vals[i].value).e)] :
        i \in {j \in 1..upto : /\ IsExpr(Unwrap(vals[j].value))
                               /\ has_value(Unwrap(vals[j].value).e)}}

\* d[w.key] = w.value for every write w, the keys of the writes being distinct
Updated(d, writes) ==
    IF writes = {} THEN d
    ELSE [p \in DOMAIN d \cup {w.key : w \in writes} |->
            IF \E w \in writes : w.key = p
            THEN (CHOOSE w \in writes : w.key = p).value
            ELSE d[p]]

RECURSIVE TablesValues(_, _, _, _, _, _)
\* lines 129-137: the dict d after tables k, k + 1, ... have written into it,
\* up to the table whose get_data raised
TablesValues(wb, ws, items, datas, k, d) ==
    IF k > Len(items) THEN d
    ELSE IF datas[k].ok
    THEN TablesValues(wb, ws, items, datas, k + 1,
                      Updated(d, TableWrites(items[k], DataCells(items[k].table))))
    ELSE IF IsArrayFormula(items[k].table) THEN d
    ELSE Updated(d, TableWrites(items[k],
                     ReachedCells(items[k].table,
                                  IF wb.none THEN wb
                                  ELSE [wb EXCEPT !.tables[ws] = RegistryDuring(items, k),
                                                  !.active_table = items[k].table])))

\* lines 152-169: the grid of max_height x max_width cells with the data of
\* the tables and then the free-standing values over written into it
Grid(items, vals, datas, ext, over, after, fv) ==
    LET covers(k, r, c) ==
            /\ items[k].row <= r /\ r < items[k].row + datas[k].val.shape[1]
            /\ items[k].col <= c /\ c < items[k].col + datas[k].val.shape[2]
        blit(r, c) ==
            IF \E k \in 1..Len(items) : covers(k, r, c)
            THEN LET k == CHOOSE k \in 1..Len(items) :
                            covers(k, r, c)
                            /\ \A j \in (k + 1)..Len(items) : ~covers(j, r, c)
                 IN  datas[k].val.rows[r - items[k].row + 1][c - items[k].col + 1]
            ELSE Empty
        bad_val == {i \in 1..Len(vals) : ~over[i].ok}
        first_bad_val == CHOOSE i \in bad_val : \A j \in bad_val : i <= j
        cell(r, c) ==
            IF \E i \in 1..Len(vals) : vals[i].row = r /\ vals[i].col = c
            THEN over[CHOOSE i \in 1..Len(vals) :
                         vals[i].row = r /\ vals[i].col = c].val
            ELSE blit(r, c)
    IN  IF bad_val # {}
        THEN [result |-> over[first_bad_val], tables |-> after,
              formula_values |-> Updated(fv, ValueWrites(vals, first_bad_val))]
        ELSE [result |-> Ok([r \in 1..ext.max_height |->
                               [c \in 1..ext.max_width |-> cell(r - 1, c - 1)]]),
              tables |-> after,
              formula_values |-> Updated(fv, ValueWrites(vals, Len(vals)))]

\* lines 148-169 once every table has been materialized: ext is the size of
\* the grid, after the registry the loop over the tables left
Overlaid(wb, ws, items, vals, datas, ext, after, fv) ==
    Grid(items, vals, datas, ext,
         [i \in 1..Len(vals) |->
            OverlayValue(vals[i],
                         IF wb.none THEN wb ELSE [wb EXCEPT !.tables[ws] = after],
                         ext.max_height, ext.max_width)],
         after, fv)

\* lines 129-169 given datas, what get_data returned or raised for each table
Assembled(wb, ws, items, vals, datas) ==
    LET bad == {k \in 1..Len(items) : ~datas[k].ok}
        first_bad == CHOOSE k \in bad : \A j \in bad : k <= j
    IN  IF bad # {}
        THEN [result |-> datas[first_bad], tables |-> RegistryDuring(items, first_bad),
              formula_values |-> TablesValues(wb, ws, items, datas, 1, <<>>)]
        ELSE Overlaid(wb, ws, items, vals, datas,
                      ValueExtents(vals, TablesHeight(items, datas),
                                   TablesWidth(items, datas)),
                      IF Len(items) = 0 THEN items ELSE DelItem(items, None),
                      TablesValues(wb, ws, items, datas, 1, <<>>))

\* Worksheet.iterrows: [result, tables, formula_values], line 127 having
\* emptied the dict
iterrows(wb, ws, items, vals) ==
    Assembled(wb, ws, items, vals,
              [k \in 1..Len(items) |->
                 get_data_with_formula_values(items[k].table,
                          IF wb.none THEN wb
                          ELSE [wb EXCEPT !.tables[ws] = RegistryDuring(items, k)])])

----------------------------------------------------------------------------
(* The operations of Worksheet and Workbook as steps of the caller.  Every *)
(* step records in last the call and what it returned or raised.           *)

\* the workbook as a lookup made now sees it
WB == [none |-> FALSE, worksheets |-> worksheets, tables |-> tables,
       active_table |-> active_table, active_worksheet |-> active_worksheet]

\* line 58 taking the new cursor from this table alone
next_row_after_no_max(prev_next_row, row, t, row_spaces) ==
    row + height(t) + row_spaces

\* line 58: the next free row after a table was put at row
next_row_after(prev_next_row, row, t, row_spaces) ==
    Max(row + height(t) + row_spaces, prev_next_row)

\* lines 56-57 always taking the caller's row
placement_row_explicit(has_row, row, cursor) == row

\* lines 56-57: the row the table is put at
placement_row(has_row, row, cursor) == IF has_row THEN row ELSE cursor

\* lines 54-55 asserting the name alone
add_table_asserts_name_only(items, t) == t.name # None

\* lines 54-55: the table has a name and the name is not registered yet
add_table_asserts(items, t) == t.name # None /\ ~HasKey(items, t.name)

\* Worksheet.add_table(table, row, col, row_spaces); has_row is FALSE when
\* the caller leaves row out
AddTable(ws, t, has_row, row, col, row_spaces) ==
    LET call(result) ==
            [op |-> "add_table", ws |-> ws, table |-> t, has_row |-> has_row,
             row |-> row, col |-> col, row_spaces |-> row_spaces,
             prev_next_row |-> next_row[ws], prev_tables |-> tables[ws],
             result |-> result]
        at == placement_row(has_row, row, next_row[ws])
    IN  IF ~add_table_asserts(tables[ws], t)
        THEN \* lines 54-55: the assertions fail before anything is stored
             /\ last' = call(Err("AssertionError"))
             /\ UNCHANGED <<worksheets, tables, values, next_row, active_table,
                            active_worksheet, sheet_iter,
                            charts, styles, formula_values>>
        ELSE /\ next_row' = [next_row EXCEPT
                                ![ws] = next_row_after(next_row[ws], at, t, row_spaces)]
             /\ tables' = [tables EXCEPT
                              ![ws] = SetItem(tables[ws],
                                              [name |-> t.name, table |-> t,
                                               row |-> at, col |-> col,
                                               has_row |-> has_row,
                                               row_spaces |-> row_spaces])]
             /\ last' = call(Ok([row |-> at, col |-> col]))
             /\ UNCHANGED <<worksheets, values, active_table, active_worksheet,
                            sheet_iter,
                            charts, styles, formula_values>>

\* Worksheet.add_value(value, row, col)
AddValue(ws, value, row, col) ==
    /\ values' = [values EXCEPT
                     ![ws] = IF \E i \in 1..Len(values[ws]) :
                                   values[ws][i].row = row /\ values[ws][i].col = col
                             THEN [i \in 1..Len(values[ws]) |->
                                     IF values[ws][i].row = row /\ values[ws][i].col = col
                                     THEN [row |-> row, col |-> col, value |-> value]
                                     ELSE values[ws][i]]
                             ELSE Append(values[ws],
                                         [row |-> row, col |-> col, value |-> value])]
    /\ last' = [op |-> "add_value", ws |-> ws, row |-> row, col |-> col,
                value |-> value]
    /\ UNCHANGED <<worksheets, tables, next_row, active_table, active_worksheet,
                   sheet_iter,
                   charts, styles, formula_values>>

\* the next_row property setter
SetNextRow(ws, value) ==
    /\ next_row' = [next_row EXCEPT ![ws] = value]
    /\ last' = [op |-> "set_next_row", ws |-> ws, value |-> value]
    /\ UNCHANGED <<worksheets, tables, values, active_table, active_worksheet,
                   sheet_iter,
                   charts, styles, formula_values>>

\* Worksheet.iterrows(workbook), read to its end; with_workbook is FALSE for
\* iterrows()
Iterrows(ws, with_workbook) ==
    \E r \in {iterrows(IF with_workbook THEN WB ELSE NoWorkbook, ws, tables[ws],
                       values[ws])} :
        /\ tables' = [tables EXCEPT ![ws] = r.tables]
        /\ formula_values' = [formula_values EXCEPT ![ws] = r.formula_values]
        /\ last' = [op |-> "iterrows", ws |-> ws, with_workbook |-> with_workbook,
                    prev_tables |-> tables[ws],
                    prev_formula_values |-> formula_values[ws],
                    result |-> r.result]
        /\ UNCHANGED <<worksheets, values, next_row, active_table, active_worksheet,
                       sheet_iter,
                       charts, styles>>

\* Workbook.add_sheet(worksheet)
AddSheet(ws) ==
    /\ worksheets' = Append(worksheets, ws)
    /\ last' = [op |-> "add_sheet", ws |-> ws]
    /\ UNCHANGED <<tables, values, next_row, active_table, active_worksheet,
                   sheet_iter,
                   charts, styles, formula_values>>

NoIter == [pos |-> 0, prev |-> None]

\* Workbook.itersheets: the for loop of the caller asks for the first sheet
ItersheetsStart ==
    /\ sheet_iter.pos = 0
    /\ Len(worksheets) >= 1
    /\ sheet_iter' = [pos |-> 1, prev |-> active_worksheet]
    /\ active_worksheet' = worksheets[1]
    /\ last' = [op |-> "itersheets", yielded |-> worksheets[1]]
    /\ UNCHANGED <<worksheets, tables, values, next_row, active_table,
                   charts, styles, formula_values>>

\* lines 59-60 left out: the active worksheet stays the one that was yielded
active_worksheet_kept(prev_ws, ws) == ws

\* lines 59-60: the active worksheet once the generator has left the yield
active_worksheet_after(prev_ws, ws) == prev_ws

\* Workbook.itersheets: the loop body ended and the loop asks for the next
\* sheet; the generator leaves the yield through the finally and, when there
\* is another worksheet, saves the active worksheet again (line 55)
ItersheetsNext ==
    /\ sheet_iter.pos >= 1
    /\ \E back \in {active_worksheet_after(sheet_iter.prev, active_worksheet)} :
          IF sheet_iter.pos < Len(worksheets)
          THEN /\ sheet_iter' = [pos |-> sheet_iter.pos + 1, prev |-> back]
               /\ active_worksheet' = worksheets[sheet_iter.pos + 1]
               /\ last' = [op |-> "itersheets",
                           yielded |-> worksheets[sheet_iter.pos + 1]]
          ELSE /\ sheet_iter' = NoIter
               /\ active_worksheet' = back
               /\ last' = [op |-> "itersheets", yielded |-> None,
                           prev_active_worksheet |-> sheet_iter.prev]
    /\ UNCHANGED <<worksheets, tables, values, next_row, active_table,
                   charts, styles, formula_values>>

\* Workbook.itersheets: the loop body raised and the generator is closed, which
\* CPython does as the exception leaves the frame of the for loop
ItersheetsClose ==
    /\ sheet_iter.pos >= 1
    /\ sheet_iter' = NoIter
    /\ active_worksheet' = active_worksheet_after(sheet_iter.prev, active_worksheet)
    /\ last' = [op |-> "itersheets_closed", yielded |-> None,
                prev_active_worksheet |-> sheet_iter.prev]
    /\ UNCHANGED <<worksheets, tables, values, next_row, active_table,
                   charts, styles, formula_values>>

\* lines 302-304 left out: the active table stays the table of the call
active_table_kept(prev_table, t) == t

\* lines 192-195 and 302-304: the active table once get_data has returned
active_table_after(prev_table, t) == prev_table

\* the caller's table.get_data(workbook, *sheet.get_table_pos(table.name)),
\* as the test does for the k-th table of the worksheet
GetData(ws, k) ==
    /\ k \in 1..Len(tables[ws])
    /\ LET t == tables[ws][k].table
       IN  /\ last' = [op |-> "get_data", ws |-> ws, item |-> tables[ws][k],
                       prev_active_table |-> active_table,
                       result |-> get_data(t, WB)]
           /\ active_table' = active_table_after(active_table, t)
    /\ UNCHANGED <<worksheets, tables, values, next_row, active_worksheet,
                   sheet_iter,
                   charts, styles, formula_values>>

\* Workbook.get_table(name)
GetTable(name) ==
    /\ last' = [op |-> "get_table", name |-> name,
                result |-> Workbook_get_table(WB, name)]
    /\ UNCHANGED <<worksheets, tables, values, next_row, active_table,
                   active_worksheet, sheet_iter,
                   charts, styles, formula_values>>

\* expr.resolve(workbook, row, col) called outside any table
Resolve(e, row, col) ==
    /\ last' = [op |-> "resolve", e |-> e, row |-> row, col |-> col,
                result |-> resolve(e, WB, row, col)]
    /\ UNCHANGED <<worksheets, tables, values, next_row, active_table,
                   active_worksheet, sheet_iter,
                   charts, styles, formula_values>>

----------------------------------------------------------------------------
(* One worksheet filled with tables of plain data and read with            *)
(* iterrows(), as in test_simple_table.                                    *)

AllSheets == {"Sheet1", "Sheet2"}

PlainNames == <<"table_1", "table_2", "table_3">>

PlainColumns == [table_1 |-> <<(<<"A">>), (<<"B">>), (<<"C">>)>>,
                 table_2 |-> <<(<<"X">>), (<<"Y">>)>>,
                 table_3 |-> <<(<<"P">>)>>]

\* Table(name, DataFrame(...)) with the default flags: n rows labelled 0..n-1,
\* numbered down the columns as in the test
PlainTable(name, n) ==
    [id |-> name \o "/" \o ToString(n),
     name |-> name,
     columns |-> PlainColumns[name],
     index |-> [r \in 1..n |-> <<ToString(r - 1)>>],
     col_depth |-> 1, idx_depth |-> 1,
     columns_names |-> <<None>>, index_names |-> <<None>>,
     cells |-> [r \in 1..n |-> [c \in 1..Len(PlainColumns[name]) |->
                                   Num(r + n * (c - 1))]],
     include_columns |-> TRUE, include_index |-> FALSE]

InitSheet ==
    /\ worksheets = <<>>
    /\ tables = [s \in AllSheets |-> <<>>]
    /\ values = [s \in AllSheets |-> <<>>]
    /\ next_row = [s \in AllSheets |-> 0]
    /\ active_table = NoTable
    /\ active_worksheet = None
    /\ sheet_iter = NoIter
    /\ charts = [s \in AllSheets |-> <<>>]
    /\ styles = <<>>
    /\ formula_values = [s \in AllSheets |-> <<>>]
    /\ last = [op |-> "init"]

AddPlainTable ==
    \E i \in 1..2, n \in {0, MaxDataRows}, has_row \in BOOLEAN,
       row \in {0, MaxTop}, col \in {0, MaxLeft}, row_spaces \in {0, MaxSpaces} :
        /\ ~has_row => row = 0
        \* a name already taken is tried once, with the default arguments
        /\ HasKey(tables["Sheet1"], PlainNames[i]) =>
              (~has_row /\ col = 0 /\ row_spaces = 0 /\ n = 0)
        /\ AddTable("Sheet1", PlainTable(PlainNames[i], n), has_row, row, col,
                    row_spaces)

IterrowsSheet == Iterrows("Sheet1", FALSE)

NextSheet == AddPlainTable \/ IterrowsSheet

SpecSheet == InitSheet /\ [][NextSheet]_vars

\* a row of cells padded with the empty value up to a width
Padded(cells, w) ==
    [c \in 1..w |-> IF c <= Len(cells) THEN cells[c] ELSE Empty]

\* the header row and the data rows of a table of plain data, as its
\* constructor was given them
HeaderAndData(t, w) ==
    <<Padded([c \in 1..Len(t.columns) |-> Str(t.columns[c][1])], w)>>
    \o [r \in 1..Len(t.index) |-> Padded(t.cells[r], w)]

RECURSIVE Stacked(_, _)
\* the tables one under the other in the order added, each followed by its
\* row_spaces empty rows unless it is the last
Stacked(items, w) ==
    IF Len(items) = 0 THEN <<>>
    ELSE HeaderAndData(Head(items).table, w)
         \o (IF Len(items) = 1 THEN <<>>
             ELSE [i \in 1..Head(items).row_spaces |-> Padded(<<>>, w)])
         \o Stacked(Tail(items), w)

WidestTable(items) ==
    MaxOver(0, [k \in 1..Len(items) |-> Len(items[k].table.columns)])

\* tables of plain data with a header and no index, added without a row at
\* column 0
PlainStack(items) ==
    \A k \in 1..Len(items) :
        /\ ~items[k].has_row
        /\ items[k].col = 0
        /\ items[k].table.include_columns
        /\ ~items[k].table.include_index
        /\ \A r \in 1..Len(items[k].table.index),
              c \in 1..Len(items[k].table.columns) :
                items[k].table.cells[r][c].k = "num"

\* C4: iterrows over tables without expressions, added without a row at
\* column 0, yields for each table in add order its header row and its data
\* rows in their order, row_spaces empty rows between consecutive tables,
\* every row padded with None to the widest table, and nothing more.
C4_StackedRows ==
    (/\ last.op = "iterrows"
     /\ values[last.ws] = <<>>
     /\ PlainStack(last.prev_tables)) =>
        last.result = Ok(Stacked(last.prev_tables, WidestTable(last.prev_tables)))

\* the two tables and the nine rows of test_simple_table
C4_Witness ==
    /\ last.op = "iterrows"
    /\ Len(last.prev_tables) = 2
    /\ PlainStack(last.prev_tables)
    /\ last.prev_tables[1].name = "table_1"
    /\ last.result =
         Ok(<< <<Str("A"), Str("B"), Str("C")>>,
               <<Num(1), Num(4), Num(7)>>,
               <<Num(2), Num(5), Num(8)>>,
               <<Num(3), Num(6), Num(9)>>,
               <<Empty, Empty, Empty>>,
               <<Str("X"), Str("Y"), Empty>>,
               <<Num(1), Num(4), Empty>>,
               <<Num(2), Num(5), Empty>>,
               <<Num(3), Num(6), Empty>> >>)

\* C11: add_table with a table whose name is already registered on the
\* worksheet raises AssertionError and leaves the worksheet as it was: the
\* earlier table and its position stay under that name and next_row keeps its
\* value.
C11_DuplicateName ==
    (last.op = "add_table" /\ HasKey(last.prev_tables, last.table.name)) =>
        /\ last.result = Err("AssertionError")
        /\ tables[last.ws] = last.prev_tables
        /\ next_row[last.ws] = last.prev_next_row

\* a second, different table is added under the name of a registered one
C11_Witness ==
    /\ last.op = "add_table"
    /\ HasKey(last.prev_tables, last.table.name)
    /\ ItemOf(last.prev_tables, last.table.name).table # last.table
    /\ ItemOf(tables[last.ws], last.table.name).row > 0
    /\ last.result = Err("AssertionError")

----------------------------------------------------------------------------
(* One worksheet on which up to three tables are placed.                   *)

PlaceTable ==
    \E i \in 1..Len(PlainNames), n \in {0, MaxDataRows}, has_row \in BOOLEAN,
       row \in {0, MaxTop}, col \in {0, MaxLeft}, row_spaces \in {0, MaxSpaces} :
        /\ ~has_row => row = 0
        \* the caller names every table afresh
        /\ ~HasKey(tables["Sheet1"], PlainNames[i])
        /\ AddTable("Sheet1", PlainTable(PlainNames[i], n), has_row, row, col,
                    row_spaces)

NextPlace == PlaceTable

SpecPlace == InitSheet /\ [][NextPlace]_vars

\* rows first..last of the sheet, both inclusive, taken by a registered table
FirstRow(item) == item.row

LastRow(item) == item.row + height(item.table) - 1

\* C6: after a successful add_table the cursor next_row is the larger of its
\* previous value and row + table.height + row_spaces, where row is the
\* previous cursor when the caller left it out; the call returns the (row, col)
\* used and get_table_pos gives the same pair.
C6_NextRow ==
    (last.op = "add_table" /\ last.result.ok) =>
        LET row == IF last.has_row THEN last.row ELSE last.prev_next_row
        IN  /\ next_row[last.ws] =
                  Max(last.prev_next_row,
                      row + height(last.table) + last.row_spaces)
            /\ last.result.val = [row |-> row, col |-> last.col]
            /\ get_table_pos(WB, last.ws, last.table.name)
                  = Ok([row |-> row, col |-> last.col])

\* an explicit row above tables already placed: the cursor keeps its value
C6_Witness ==
    /\ last.op = "add_table"
    /\ last.result.ok
    /\ last.has_row
    /\ Len(tables[last.ws]) = 3
    /\ last.row + height(last.table) + last.row_spaces < last.prev_next_row
    /\ next_row[last.ws] = last.prev_next_row

\* C7: a table added with its row left out starts strictly below the last row
\* of every table registered before it; when every table was added that way,
\* each table starts exactly row_spaces rows after the end of the one before.
C7_NoOverlap ==
    LET items == tables["Sheet1"]
    IN  /\ \A i, j \in 1..Len(items) :
              (i < j /\ ~items[j].has_row) =>
                  FirstRow(items[j]) > LastRow(items[i])
        /\ (\A k \in 1..Len(items) : ~items[k].has_row) =>
              \A i \in 1..(Len(items) - 1) :
                  FirstRow(items[i + 1]) - LastRow(items[i]) - 1
                      = items[i].row_spaces

\* two tables at explicit rows that overlap, then a third with its row left out
C7_Witness ==
    LET items == tables["Sheet1"]
    IN  /\ Len(items) = 3
        /\ items[1].has_row /\ items[1].row = MaxTop
        /\ items[2].has_row /\ items[2].row = 0
        /\ LastRow(items[2]) >= FirstRow(items[1])
        /\ ~items[3].has_row
        /\ FirstRow(items[3]) > LastRow(items[1])
        /\ FirstRow(items[3]) > LastRow(items[2])

----------------------------------------------------------------------------
(* One table of any shape and layout, registered on Sheet1 of a workbook   *)
(* and materialized with get_data.                                         *)

\* the label of the c-th column (or r-th row) of a frame with d levels
ShapedLabel(prefix, i, d) == [l \in 1..d |-> prefix \o ToString(i) \o "_" \o ToString(l)]

\* the columns the formula of a shaped table adds up: the first and the second
\* (the first twice when there is no second)
SumOf(m, col_depth) ==
    <<ShapedLabel("c", 1, col_depth),
      ShapedLabel("c", IF m >= 2 THEN 2 ELSE 1, col_depth)>>

\* Table("table_1", DataFrame(...), include_columns, include_index) with n
\* rows and m columns of numbers; when with_formula, the last column holds
\* Formula("SUM", Cell(first column), Cell(second column))
ShapedTable(m, n, include_columns, include_index, col_depth, idx_depth, with_formula) ==
    LET sum == Formula("SUM", <<Cell(SumOf(m, col_depth)[1], NoLabel, 0, None),
                                Cell(SumOf(m, col_depth)[2], NoLabel, 0, None)>>)
    IN  [id |-> "shaped",
         name |-> "table_1",
         columns |-> [c \in 1..m |-> ShapedLabel("c", c, col_depth)],
         index |-> [r \in 1..n |-> ShapedLabel("r", r, idx_depth)],
         col_depth |-> col_depth, idx_depth |-> idx_depth,
         columns_names |-> [l \in 1..col_depth |-> None],
         index_names |-> [l \in 1..idx_depth |-> None],
         cells |-> [r \in 1..n |-> [c \in 1..m |->
                      IF with_formula /\ c = m THEN Expr(sum)
                      ELSE Num(r + n * (c - 1))]],
         include_columns |-> include_columns, include_index |-> include_index]

InitTable ==
    /\ worksheets = <<"Sheet1">>
    /\ \E m \in 1..MaxDataCols, n \in 0..MaxDataRows,
          include_columns \in BOOLEAN, include_index \in BOOLEAN,
          col_depth \in 1..MaxDepth, idx_depth \in 1..MaxDepth,
          with_formula \in BOOLEAN, top \in {0, MaxTop}, left \in {0, MaxLeft} :
          LET t == ShapedTable(m, n, include_columns, include_index, col_depth,
                               idx_depth, with_formula)
          IN  /\ tables = [s \in AllSheets |->
                             IF s = "Sheet1"
                             THEN <<[name |-> t.name, table |-> t, row |-> top,
                                     col |-> left, has_row |-> TRUE,
                                     row_spaces |-> 1]>>
                             ELSE <<>>]
              /\ next_row = [s \in AllSheets |->
                               IF s = "Sheet1" THEN top + height(t) + 1 ELSE 0]
    /\ values = [s \in AllSheets |-> <<>>]
    /\ active_table = NoTable
    /\ active_worksheet = None
    /\ sheet_iter = NoIter
    /\ charts = [s \in AllSheets |-> <<>>]
    /\ styles = <<>>
    /\ formula_values = [s \in AllSheets |-> <<>>]
    /\ last = [op |-> "init"]

GetDataTable == GetData("Sheet1", 1)

NextTable == GetDataTable \/ ItersheetsStart \/ ItersheetsNext \/ ItersheetsClose

SpecTable == InitTable /\ [][NextTable]_vars

\* C5: the grid get_data returns has table.height rows and table.width
\* columns, where height is the number of data rows plus the header height,
\* width the number of data columns plus the index width, and the header
\* height (index width) is the depth of the column (row) labels when the
\* header (index) is included and 0 when it is not.
C5_GridShape ==
    last.op = "get_data" =>
        LET t == last.item.table
            grid == last.result.val
            hh == IF t.include_columns THEN t.col_depth ELSE 0
            iw == IF t.include_index THEN t.idx_depth ELSE 0
        IN  /\ last.result.ok
            /\ grid.shape = <<height(t), width(t)>>
            /\ Len(grid.rows) = height(t)
            /\ \A i \in 1..Len(grid.rows) : Len(grid.rows[i]) = width(t)
            /\ height(t) = Len(t.cells) + hh
            /\ width(t) = Len(t.columns) + iw
            /\ header_height(t) = hh
            /\ row_labels_width(t) = iw

\* a table with two-level column and row labels, header and index included
C5_Witness ==
    /\ last.op = "get_data"
    /\ last.result.ok
    /\ last.item.table.include_columns /\ last.item.table.include_index
    /\ last.item.table.col_depth = 2 /\ last.item.table.idx_depth = 2
    /\ Len(last.item.table.index) = 2 /\ Len(last.item.table.columns) = 2
    /\ last.result.val.shape = <<4, 4>>

\* C1: in the grid of a table registered on worksheet S at (top, left), the
\* cell of data row i holding Formula("SUM", Cell(c1), Cell(c2)) is the string
\* =SUM('S'!a1,'S'!a2): no $, the row printed is top + header height + i + 1,
\* the letter that of column left + index width + position of the label.
C1_RelativeCells ==
    (/\ last.op = "get_data"
     /\ \E r \in 1..Len(last.item.table.cells) :
           IsExpr(last.item.table.cells[r][Len(last.item.table.columns)])) =>
        LET t == last.item.table
            m == Len(t.columns)
            hh == IF t.include_columns THEN t.col_depth ELSE 0
            iw == IF t.include_index THEN t.idx_depth ELSE 0
            addr(i, pos) == "'" \o last.ws \o "'!"
                            \o Letters[last.item.col + iw + pos + 1]
                            \o ToString(last.item.row + hh + i + 1)
            second == IF m >= 2 THEN 1 ELSE 0
        IN  /\ last.result.ok
            /\ \A i \in 0..(Len(t.cells) - 1) :
                  last.result.val.rows[hh + i + 1][iw + m] =
                      Str("=SUM(" \o addr(i, 0) \o "," \o addr(i, second) \o ")")

\* the layout of test_formula: three columns and three rows under a header at
\* the origin of Sheet1, the third column adding up the first two
C1_Witness ==
    /\ last.op = "get_data"
    /\ last.item.row = 0 /\ last.item.col = 0
    /\ last.result =
         Ok([shape |-> <<4, 3>>,
             rows |-> << <<Str("c1_1"), Str("c2_1"), Str("c3_1")>>,
                         <<Num(1), Num(4), Str("=SUM('Sheet1'!A2,'Sheet1'!B2)")>>,
                         <<Num(2), Num(5), Str("=SUM('Sheet1'!A3,'Sheet1'!B3)")>>,
                         <<Num(3), Num(6), Str("=SUM('Sheet1'!A4,'Sheet1'!B4)")>> >>])

----------------------------------------------------------------------------
(* The workbook of test_formula: table_1 with a formula column, table_2    *)
(* whose formulas refer to table_1 by name, two worksheets, and the export *)
(* loop of Workbook.to_xlsx as steps of itersheets.                        *)

\* Table("table_1", df_1, include_columns, include_index) of the test: col_1 =
\* 1,2,3, col_2 = 4,5,6, col_3 = Formula("SUM", Cell("col_1"), Cell("col_2"))
FormulaTable(id, include_columns, include_index) ==
    [id |-> id,
     name |-> "table_1",
     columns |-> <<(<<"col_1">>), (<<"col_2">>), (<<"col_3">>)>>,
     index |-> [r \in 1..3 |-> <<ToString(r - 1)>>],
     col_depth |-> 1, idx_depth |-> 1,
     columns_names |-> <<None>>, index_names |-> <<None>>,
     cells |-> [r \in 1..3 |->
                  <<Num(r), Num(r + 3),
                    Expr(Formula("SUM", <<Cell(<<"col_1">>, NoLabel, 0, None),
                                          Cell(<<"col_2">>, NoLabel, 0, None)>>))>>],
     include_columns |-> include_columns, include_index |-> include_index]

\* Formula("SUMPRODUCT", Column("col_1", table="table_1"),
\*                       Column("col_2", table="table_1"))
SumProduct(include_header) ==
    Formula("SUMPRODUCT", <<Column(<<"col_1">>, include_header, "table_1"),
                            Column(<<"col_2">>, include_header, "table_1")>>)

\* Table("table_2", df_2) of the test, with a second column whose references
\* include the header
ReferringTable ==
    [id |-> "table_2",
     name |-> "table_2",
     columns |-> <<(<<"SP">>), (<<"SPH">>)>>,
     index |-> <<(<<"1">>)>>,
     col_depth |-> 1, idx_depth |-> 1,
     columns_names |-> <<None>>, index_names |-> <<None>>,
     cells |-> << <<Expr(SumProduct(FALSE)), Expr(SumProduct(TRUE))>> >>,
     include_columns |-> TRUE, include_index |-> FALSE]

\* the table objects the caller has: two tables named table_1 that differ in
\* layout, and the table referring to that name
Catalog ==
    <<FormulaTable("table_1", TRUE, FALSE),
      FormulaTable("table_1 with index", FALSE, TRUE),
      ReferringTable>>

\* the names the caller asks the workbook for
LookupNames ==
    {None, "table_1", "table_2", "Sheet1!table_1", "'Sheet2'!table_1"}

\* table names of references resolved outside any table
ReferenceNames ==
    {"nosuch", "Sheet1!nosuch", "NoSheet!table_1", "Sheet2!table_1"}

\* one reference of each class to the table called name
References(name) ==
    {Cell(<<"col_1">>, NoLabel, 0, name),
     Column(<<"col_1">>, FALSE, name),
     Index(FALSE, name),
     Range(<<"col_1">>, <<"col_2">>, NoLabel, NoLabel, FALSE, name)}

InitBook ==
    /\ worksheets = <<>>
    /\ tables = [s \in AllSheets |-> <<>>]
    /\ values = [s \in AllSheets |-> <<>>]
    /\ next_row = [s \in AllSheets |-> 0]
    /\ active_table = NoTable
    /\ active_worksheet = None
    /\ sheet_iter = NoIter
    /\ charts = [s \in AllSheets |-> <<>>]
    /\ styles = <<>>
    /\ formula_values = [s \in AllSheets |-> <<>>]
    /\ last = [op |-> "init"]

\* the table object is on worksheet ws already
OnSheet(ws, t) == \E i \in 1..Len(tables[ws]) : tables[ws][i].table.id = t.id

\* sheet.add_table(table) or sheet.add_table(table, row, col): every table
\* object is added once, under a name free on its worksheet
AddCatalogTable ==
    \E ws \in AllSheets, k \in 1..Len(Catalog), has_row \in BOOLEAN :
        /\ \A s \in AllSheets : ~OnSheet(s, Catalog[k])
        /\ ~HasKey(tables[ws], Catalog[k].name)
        /\ has_row => Catalog[k] # ReferringTable
        /\ AddTable(ws, Catalog[k], has_row,
                    IF has_row THEN MaxTop ELSE 0,
                    IF has_row THEN MaxLeft ELSE 0, MaxSpaces)

\* workbook.add_sheet(sheet), once for each worksheet
AddNewSheet ==
    \E ws \in AllSheets :
        /\ \A i \in 1..Len(worksheets) : worksheets[i] # ws
        /\ AddSheet(ws)

GetDataAny == \E ws \in AllSheets, k \in 1..Len(Catalog) : GetData(ws, k)

GetTableAny == \E name \in LookupNames : GetTable(name)

ResolveAny ==
    \E name \in ReferenceNames : \E e \in References(name) : Resolve(e, MaxRow, 0)

NextBook ==
    \/ AddCatalogTable
    \/ AddNewSheet
    \/ ItersheetsStart
    \/ ItersheetsNext
    \/ ItersheetsClose
    \/ GetDataAny
    \/ GetTableAny
    \/ ResolveAny

SpecBook == InitBook /\ [][NextBook]_vars

\* the registered worksheets, in registration order, holding a table called name
Holders(name) ==
    SelectSeq(worksheets, LAMBDA ws : HasKey(tables[ws], name))

\* the address "'S'!$X$r1:$X$r2" of column number pos (0-based) of the table
\* registered as item on worksheet S
ColumnRange(S, item, pos, include_header) ==
    LET t == item.table
        X == Letters[item.col + (IF t.include_index THEN t.idx_depth ELSE 0) + pos + 1]
        r1 == item.row + (IF include_header \/ ~t.include_columns THEN 0
                          ELSE t.col_depth)
        r2 == item.row + Len(t.cells) + (IF t.include_columns THEN t.col_depth ELSE 0) - 1
    IN  "'" \o S \o "'!$" \o X \o "$" \o ToString(r1 + 1)
            \o ":$" \o X \o "$" \o ToString(r2 + 1)

\* "=SUMPRODUCT(" col_1 of the item "," col_2 of the item ")"
SumProductOf(S, item, include_header) ==
    Str("=SUMPRODUCT(" \o ColumnRange(S, item, 0, include_header) \o ","
                       \o ColumnRange(S, item, 1, include_header) \o ")")

\* C2: when table_2 sits on one worksheet and the only table_1 of the workbook
\* on another registered worksheet S, get_data of table_2 turns each
\* Formula("SUMPRODUCT", Column("col_1", table="table_1"), Column("col_2",
\* table="table_1")) into =SUMPRODUCT('S'!$X$r1:$X$r2,...), with X the letter
\* of the column inside table_1 on the sheet, r1 its first data row (its top
\* row with include_header) and r2 its last row.
C2_ColumnAcrossSheets ==
    (/\ last.op = "get_data"
     /\ last.item.table = ReferringTable
     /\ Len(Holders("table_1")) = 1
     /\ Holders("table_1")[1] # last.ws) =>
        LET S == Holders("table_1")[1]
            item == ItemOf(tables[S], "table_1")
        IN  /\ last.result.ok
            /\ last.result.val.rows[2] =
                  <<SumProductOf(S, item, FALSE), SumProductOf(S, item, TRUE)>>

\* C2 while no worksheet is being exported, as in test_formula
C2_OutsideExport == active_worksheet = None => C2_ColumnAcrossSheets

\* the second half of test_formula
C2_TestFormula ==
    /\ last.op = "get_data"
    /\ last.ws = "Sheet2"
    /\ active_worksheet = None
    /\ last.result.ok
    /\ last.result.val.rows[1] = <<Str("SP"), Str("SPH")>>
    /\ last.result.val.rows[2][1] =
          Str("=SUMPRODUCT('Sheet1'!$A$2:$A$4,'Sheet1'!$B$2:$B$4)")

\* Sheet2 is being exported, the only table_1 is on Sheet1, and table_2 on
\* Sheet2 is materialized
C2_FailingInput ==
    /\ last.op = "get_data"
    /\ last.item.table = ReferringTable
    /\ last.ws = "Sheet2"
    /\ active_worksheet = "Sheet2"
    /\ Holders("table_1") = <<"Sheet1">>
    /\ last.result = Err("KeyError")

\* the table the documented lookup of an unqualified name finds: the active
\* worksheet's, else that of the first registered worksheet holding the name
PreferActiveThenScan(name) ==
    IF active_worksheet # None /\ HasKey(tables[active_worksheet], name)
    THEN Found(ItemOf(tables[active_worksheet], name).table, active_worksheet)
    ELSE IF Len(Holders(name)) >= 1
         THEN Found(ItemOf(tables[Holders(name)[1]], name).table, Holders(name)[1])
         ELSE Err("KeyError")

\* C3: Workbook.get_table of an unqualified name returns the active
\* worksheet's table of that name when there is one, otherwise the table of
\* the first registered worksheet that has one, and raises KeyError only when
\* no registered worksheet has one.
C3_PreferActiveThenScan ==
    (/\ last.op = "get_table"
     /\ last.name # None
     /\ FirstBang(last.name) = 0) =>
        last.result = PreferActiveThenScan(last.name)

\* C3 while no worksheet is being exported
C3_OutsideExport == active_worksheet = None => C3_PreferActiveThenScan

\* C3 when the active worksheet has a table of that name
C3_ActiveHolds ==
    (/\ last.op = "get_table"
     /\ active_worksheet # None
     /\ HasKey(tables[active_worksheet], last.name)) => C3_PreferActiveThenScan

\* Sheet2 is being exported and table_1 is on Sheet1 alone
C3_FailingInput ==
    /\ last.op = "get_table"
    /\ last.name = "table_1"
    /\ active_worksheet = "Sheet2"
    /\ Holders("table_1") = <<"Sheet1">>
    /\ last.result = Err("KeyError")

\* the name matches no table of a registered worksheet
MatchesNoTable(name) ==
    LET b == FirstBang(name)
    IN  IF b = 0 THEN Holders(name) = <<>>
        ELSE \A i \in 1..Len(worksheets) :
                worksheets[i] = StripQuotes(SubSeq(name, 1, b - 1)) =>
                    ~HasKey(tables[worksheets[i]],
                            StripQuotes(SubSeq(name, b + 1, Len(name))))

\* C10: resolving a Cell, Column, Index or Range whose table name matches no
\* table of a registered worksheet raises KeyError, whichever worksheet is
\* active, outside any table and for the references of table_2 while get_data
\* has made table_2 the active table.
C10_MissingTable ==
    /\ (last.op = "resolve" /\ MatchesNoTable(last.e.table)) =>
          last.result = Err("KeyError")
    /\ (last.op = "get_data" /\ last.item.table = ReferringTable
        /\ MatchesNoTable("table_1")) =>
          last.result = Err("KeyError")

\* a qualified name whose worksheet is not registered while another worksheet
\* has the table, asked for during the export of that worksheet
C10_Witness ==
    /\ last.op = "resolve"
    /\ last.e.kind = "Column"
    /\ last.e.table = "NoSheet!table_1"
    /\ active_worksheet # None
    /\ HasKey(tables[active_worksheet], "table_1")
    /\ last.result = Err("KeyError")

\* table_2 is materialized during the export of its worksheet while the only
\* table_1 is on a worksheet that was not added to the workbook
C10_WitnessInTable ==
    /\ last.op = "get_data"
    /\ last.item.table = ReferringTable
    /\ active_worksheet = last.ws
    /\ HasKey(tables["Sheet1"], "table_1")
    /\ MatchesNoTable("table_1")
    /\ last.result = Err("KeyError")

\* the table object t is registered on worksheet ws under its name
RegisteredOn(ws, t) ==
    /\ HasKey(tables[ws], t.name)
    /\ ItemOf(tables[ws], t.name).table.id = t.id

\* the workbook as the references of the table of the last get_data saw it:
\* line 194 had made that table the active table
DuringLastGetData == [WB EXCEPT !.active_table = last.item.table]

\* C23: Workbook.get_table(None) while a table is the active table (as
\* during its get_data) returns that very table object and the worksheet on
\* which the object is registered: the active worksheet when one is set and
\* holds it, and, when no worksheet is active, the registered worksheet that
\* holds the object, even if a worksheet registered earlier holds a different
\* table of the same name; with no active table it raises AssertionError.
C23_ActiveTableLookup ==
    /\ (last.op = "get_data" /\ active_worksheet # None
        /\ RegisteredOn(active_worksheet, last.item.table)) =>
          Workbook_get_table(DuringLastGetData, None)
              = Found(last.item.table, active_worksheet)
    /\ (last.op = "get_data" /\ active_worksheet = None) =>
          \A i \in 1..Len(worksheets) :
              RegisteredOn(worksheets[i], last.item.table) =>
                  Workbook_get_table(DuringLastGetData, None)
                      = Found(last.item.table, worksheets[i])
    /\ (last.op = "get_table" /\ last.name = None /\ active_table = NoTable) =>
          last.result = Err("AssertionError")

\* no worksheet is active, Sheet1 was registered first and holds a table_1,
\* and the table_1 of Sheet2, another object, is materialized: its unqualified
\* references find it on Sheet2
C23_Witness ==
    /\ last.op = "get_data"
    /\ active_worksheet = None
    /\ worksheets = <<"Sheet1", "Sheet2">>
    /\ last.ws = "Sheet2"
    /\ last.item.name = "table_1"
    /\ HasKey(tables["Sheet1"], "table_1")
    /\ ItemOf(tables["Sheet1"], "table_1").table.id # last.item.table.id
    /\ Workbook_get_table(DuringLastGetData, None) = Found(last.item.table, "Sheet2")
    /\ last.result.ok

\* C24 as stated: Workbook.get_table(None) called while the active worksheet
\* is set and the active table is not registered on it (no table of that name
\* there, or another object under that name) raises AssertionError.
C24_ActiveTableMismatch ==
    (/\ last.op = "get_data"
     /\ active_worksheet # None
     /\ ~RegisteredOn(active_worksheet, last.item.table)) =>
        Workbook_get_table(DuringLastGetData, None) = Err("AssertionError")

\* what the code does keep: the assertion fails when the active worksheet
\* holds another object under the active table's name
C24_OtherObject ==
    (/\ last.op = "get_data"
     /\ active_worksheet # None
     /\ HasKey(tables[active_worksheet], last.item.name)
     /\ ~RegisteredOn(active_worksheet, last.item.table)) =>
        Workbook_get_table(DuringLastGetData, None) = Err("AssertionError")

\* Sheet2 is being exported and has no table_1, and the table_1 of Sheet1 is
\* materialized: its first unqualified reference raises KeyError
C24_FailingInput ==
    /\ last.op = "get_data"
    /\ last.ws = "Sheet1"
    /\ last.item.name = "table_1"
    /\ active_worksheet = "Sheet2"
    /\ ~HasKey(tables["Sheet2"], "table_1")
    /\ Workbook_get_table(DuringLastGetData, None) = Err("KeyError")
    /\ last.result = Err("KeyError")

\* Sheet2 is being exported and holds the other table_1
C24_OtherObjectWitness ==
    /\ last.op = "get_data"
    /\ last.ws = "Sheet1"
    /\ last.item.name = "table_1"
    /\ active_worksheet = "Sheet2"
    /\ HasKey(tables["Sheet2"], "table_1")
    /\ last.result = Err("AssertionError")

----------------------------------------------------------------------------
(* Address arithmetic on its own: the caller picks a coordinate and calls  *)
(* _to_addr on it.                                                         *)

InitAddr ==
    /\ worksheets = <<>>
    /\ tables = [s \in AllSheets |-> <<>>]
    /\ values = [s \in AllSheets |-> <<>>]
    /\ next_row = [s \in AllSheets |-> 0]
    /\ active_table = NoTable
    /\ active_worksheet = None
    /\ sheet_iter = NoIter
    /\ charts = [s \in AllSheets |-> <<>>]
    /\ styles = <<>>
    /\ formula_values = [s \in AllSheets |-> <<>>]
    /\ \E col \in 0..MaxCol, row \in 0..MaxRow, fixed \in BOOLEAN,
          worksheet \in {None, "Sheet1"} :
          last = [op |-> "input", worksheet |-> worksheet, row |-> row,
                  col |-> col, fixed |-> fixed]

ToAddr ==
    /\ last.op = "input"
    /\ last' = [op |-> "_to_addr", worksheet |-> last.worksheet,
                row |-> last.row, col |-> last.col, fixed |-> last.fixed,
                result |-> _to_addr(last.worksheet, last.row, last.col, last.fixed)]
    /\ UNCHANGED <<worksheets, tables, values, next_row, active_table,
                   active_worksheet, sheet_iter,
                   charts, styles, formula_values>>

NextAddr == ToAddr

SpecAddr == InitAddr /\ [][NextAddr]_vars

----------------------------------------------------------------------------
(* Reading an address back.                                                *)

CharAt(s, i) == SubSeq(s, i, i)

IsLetter(ch) == \E k \in 1..26 : Letters[k] = ch

LetterValue(ch) == CHOOSE k \in 1..26 : Letters[k] = ch

\* index of the first "!" of s, 0 when there is none
BangPos(s) ==
    IF \E i \in 1..Len(s) : CharAt(s, i) = "!"
    THEN CHOOSE i \in 1..Len(s) :
            CharAt(s, i) = "!" /\ \A j \in 1..(i - 1) : CharAt(s, j) # "!"
    ELSE 0

\* the column letters of an address: the run of capitals after the sheet
\* prefix and the optional $
AddrLetters(s) ==
    LET b == BangPos(s)
        first == IF b + 1 <= Len(s) /\ CharAt(s, b + 1) = "$" THEN b + 2 ELSE b + 1
        stop == IF \E i \in first..Len(s) : ~IsLetter(CharAt(s, i))
                THEN CHOOSE i \in first..Len(s) :
                        /\ ~IsLetter(CharAt(s, i))
                        /\ \A j \in first..(i - 1) : IsLetter(CharAt(s, j))
                ELSE Len(s) + 1
    IN  SubSeq(s, first, stop - 1)

RECURSIVE DecodeLetters(_)
\* bijective base 26: A = 1 .. Z = 26
DecodeLetters(s) ==
    IF Len(s) = 0 THEN 0
    ELSE 26 * DecodeLetters(SubSeq(s, 1, Len(s) - 1)) + LetterValue(CharAt(s, Len(s)))

\* a comes strictly before b: shorter first, then alphabetical
ShortLexLess(a, b) ==
    \/ Len(a) < Len(b)
    \/ /\ Len(a) = Len(b)
       /\ \E i \in 1..Len(a) :
             /\ \A j \in 1..(i - 1) : CharAt(a, j) = CharAt(b, j)
             /\ LetterValue(CharAt(a, i)) < LetterValue(CharAt(b, i))

LettersOfCol(col) == AddrLetters(_to_addr(None, 0, col, FALSE))

\* C8: decoding the column letters of the address _to_addr produced, as
\* bijective base 26, and subtracting 1 gives the column back; so no smaller
\* column has the same letters (compared once per column, on the plain address).
C8_RoundTrip ==
    last.op = "_to_addr" =>
        /\ Len(AddrLetters(last.result)) >= 1
        /\ DecodeLetters(AddrLetters(last.result)) - 1 = last.col
        /\ (last.row = 0 /\ ~last.fixed /\ last.worksheet = None) =>
              \A other \in 0..(last.col - 1) :
                  LettersOfCol(other) # AddrLetters(last.result)

C8_Witness ==
    /\ last.op = "_to_addr"
    /\ last.col = 27
    /\ last.fixed
    /\ last.result = "'Sheet1'!$AB$1"

\* C9: columns 0, 25, 26, 701 and 702 are lettered A, Z, AA, ZZ and AAA, and
\* the letters of col + 1 come strictly after those of col, shorter first
\* and then alphabetically.
C9_Boundaries ==
    last.op = "_to_addr" =>
        /\ last.col = 0 => AddrLetters(last.result) = "A"
        /\ last.col = 25 => AddrLetters(last.result) = "Z"
        /\ last.col = 26 => AddrLetters(last.result) = "AA"
        /\ last.col = 701 => AddrLetters(last.result) = "ZZ"
        /\ last.col = 702 => AddrLetters(last.result) = "AAA"
        /\ ShortLexLess(AddrLetters(last.result), LettersOfCol(last.col + 1))

C9_Witness ==
    /\ last.op = "_to_addr"
    /\ last.col = 701
    /\ AddrLetters(last.result) = "ZZ"
    /\ LettersOfCol(last.col + 1) = "AAA"

----------------------------------------------------------------------------
(* The example of the package docstring: Table("table", dataframe) with    *)
(* col_1 = 1,2,3, col_2 = 4,5,6 and a third column holding an expression,  *)
(* on Sheet1 next to a second table the expression may refer to by name.   *)

\* Table("table", dataframe, include_columns, include_index) whose col_3 is e
DocTable(e, include_columns, include_index) ==
    [id |-> "table",
     name |-> "table",
     columns |-> <<(<<"col_1">>), (<<"col_2">>), (<<"col_3">>)>>,
     index |-> [r \in 1..3 |-> <<ToString(r - 1)>>],
     col_depth |-> 1, idx_depth |-> 1,
     columns_names |-> <<None>>, index_names |-> <<None>>,
     cells |-> [r \in 1..3 |-> <<Num(r), Num(r + 3), Expr(e)>>],
     include_columns |-> include_columns, include_index |-> include_index]

\* Table("other", DataFrame({"col_a": [7, 8]}, index=["x", "y"]))
OtherTable ==
    [id |-> "other",
     name |-> "other",
     columns |-> <<(<<"col_a">>)>>,
     index |-> <<(<<"x">>), (<<"y">>)>>,
     col_depth |-> 1, idx_depth |-> 1,
     columns_names |-> <<None>>, index_names |-> <<None>>,
     cells |-> << <<Num(7)>>, <<Num(8)>> >>,
     include_columns |-> TRUE, include_index |-> FALSE]

\* Cell("col_1") + Cell("col_2"): Expression.__add__ builds BinOp(self, other, "+")
DocSum ==
    BinOp(Cell(<<"col_1">>, NoLabel, 0, None), Cell(<<"col_2">>, NoLabel, 0, None),
          "+")

\* the expressions the caller puts in col_3 whose labels all exist
SoundExprs ==
    {DocSum,
     Cell(<<"col_a">>, <<"y">>, 0, "other"),
     Formula("SUM", <<Column(<<"col_a">>, FALSE, "other"),
                      Cell(<<"col_1">>, <<"2">>, 0, None)>>)}

\* the expressions the caller puts in col_3 that name a column or a row the
\* table referred to does not have
DanglingExprs ==
    {Cell(<<"col_9">>, NoLabel, 0, None),
     Cell(<<"col_1">>, <<"9">>, 0, None),
     Cell(<<"col_9">>, NoLabel, 0, "other"),
     Cell(<<"col_a">>, <<"z">>, 0, "other"),
     Column(<<"col_9">>, FALSE, "other"),
     Range(<<"col_1">>, <<"col_9">>, NoLabel, NoLabel, FALSE, None),
     Range(<<"col_a">>, <<"col_a">>, <<"x">>, <<"z">>, FALSE, "other"),
     BinOp(Cell(<<"col_1">>, NoLabel, 0, None), Cell(<<"col_9">>, NoLabel, 0, None),
           "+"),
     Formula("SUM", <<Cell(<<"col_1">>, NoLabel, 0, None),
                      Column(<<"col_9">>, TRUE, None)>>)}

InitCells ==
    /\ worksheets = <<"Sheet1">>
    /\ \E e \in SoundExprs \cup DanglingExprs,
          include_columns \in BOOLEAN, include_index \in BOOLEAN,
          top \in {0, MaxTop}, left \in {0, MaxLeft} :
          LET t == DocTable(e, include_columns, include_index)
          IN  /\ tables = [s \in AllSheets |->
                             IF s = "Sheet1"
                             THEN <<[name |-> t.name, table |-> t, row |-> top,
                                     col |-> left, has_row |-> TRUE,
                                     row_spaces |-> 1],
                                    [name |-> "other", table |-> OtherTable,
                                     row |-> 0, col |-> left + width(t) + 1,
                                     has_row |-> TRUE, row_spaces |-> 1]>>
                             ELSE <<>>]
              /\ next_row = [s \in AllSheets |->
                               IF s = "Sheet1" THEN top + height(t) + 1 ELSE 0]
    /\ values = [s \in AllSheets |-> <<>>]
    /\ active_table = NoTable
    /\ active_worksheet = None
    /\ sheet_iter = NoIter
    /\ charts = [s \in AllSheets |-> <<>>]
    /\ styles = <<>>
    /\ formula_values = [s \in AllSheets |-> <<>>]
    /\ last = [op |-> "init"]

\* table.get_data(workbook, *sheet.get_table_pos(table.name)) for either table
GetDataCells == \E k \in 1..2 : GetData("Sheet1", k)

\* list(sheet.iterrows(workbook))
IterrowsCells == Iterrows("Sheet1", TRUE)

NextCells == GetDataCells \/ IterrowsCells

SpecCells == InitCells /\ [][NextCells]_vars

\* labels has the label
HasLabel(labels, label) == \E i \in 1..Len(labels) : labels[i] = label

RECURSIVE Dangles(_, _, _)
\* expression e, held by table own on a worksheet with the registry items,
\* names a column or a row that the table it refers to does not have
Dangles(e, own, items) ==
    LET t == IF e.table = None THEN own ELSE ItemOf(items, e.table).table
    IN  CASE e.kind = "Cell" ->
                \/ ~HasLabel(t.columns, e.col)
                \/ e.row # NoLabel /\ ~HasLabel(t.index, e.row)
          [] e.kind = "Column" -> ~HasLabel(t.columns, e.col)
          [] e.kind = "Range" ->
                \/ ~HasLabel(t.columns, e.left_col)
                \/ ~HasLabel(t.columns, e.right_col)
                \/ e.top # NoLabel /\ ~HasLabel(t.index, e.top)
                \/ e.bottom # NoLabel /\ ~HasLabel(t.index, e.bottom)
          [] e.kind = "Formula" ->
                \E i \in 1..Len(e.args) : Dangles(e.args[i], own, items)
          [] e.kind = "BinOp" ->
                Dangles(e.lhs, own, items) \/ Dangles(e.rhs, own, items)
          [] OTHER -> FALSE

\* table t of the registry items holds an expression that dangles
TableDangles(t, items) ==
    \E r \in 1..Len(t.cells), c \in 1..Len(t.columns) :
        IsExpr(t.cells[r][c]) /\ Dangles(t.cells[r][c].e, t, items)

C25_RegistryRestored ==
    last.op = "iterrows" =>
        /\ ~HasKey(tables[last.ws], None)
        /\ tables[last.ws] = DelItem(last.prev_tables, None)
        /\ \A i, j \in 1..Len(tables[last.ws]) :
              tables[last.ws][i].table.id = tables[last.ws][j].table.id => i = j

\* what the code does keep: a pass that completes leaves no entry under None
C25_CompletedPass ==
    (last.op = "iterrows" /\ last.result.ok) =>
        /\ ~HasKey(tables[last.ws], None)
        /\ tables[last.ws] = DelItem(last.prev_tables, None)

\* iterrows failed on the docstring table, whose col_3 names a column that
\* does not exist: the table stays in the registry a second time, under None
C25_FailingInput ==
    /\ last.op = "iterrows"
    /\ last.result = Err("KeyError")
    /\ ~HasKey(last.prev_tables, None)
    /\ Len(tables[last.ws]) = Len(last.prev_tables) + 1
    /\ HasKey(tables[last.ws], None)
    /\ ItemOf(tables[last.ws], None).table = ItemOf(tables[last.ws], "table").table
    /\ ItemOf(tables[last.ws], "table").table.cells[1][3] =
          Expr(Cell(<<"col_9">>, NoLabel, 0, None))

\* a pass over the docstring table and the other table that completed
C25_CompletedWitness ==
    /\ last.op = "iterrows"
    /\ last.result.ok
    /\ Len(tables[last.ws]) = 2
    /\ tables[last.ws] = last.prev_tables

\* the last call materialized the docstring table (col_3 = Cell("col_1") +
\* Cell("col_2"), default flags) registered at the origin of Sheet1
DocSumAtOrigin ==
    /\ last.op \in {"get_data", "iterrows"}
    /\ tables["Sheet1"][1].table = DocTable(DocSum, TRUE, FALSE)
    /\ tables["Sheet1"][1].row = 0 /\ tables["Sheet1"][1].col = 0
    /\ last.op = "get_data" => last.item.name = "table"

\* the grid of the docstring table the last call returned: the array of
\* get_data, or the rows of iterrows
DocGrid == IF last.op = "get_data" THEN last.result.val.rows ELSE last.result.val

\* C19 as stated: the first data row of the third column is written as
\* =('Sheet1'!A2+'Sheet1'!B2), the sum in its parentheses.
C19_Parenthesised ==
    DocSumAtOrigin =>
        /\ last.result.ok
        /\ DocGrid[2][3] = Str("=('Sheet1'!A2+'Sheet1'!B2)")

\* C19 amended: the first data row of the third column is written as
\* ='Sheet1'!A2+'Sheet1'!B2, and data row i as the sum of the cells of
\* columns A and B of sheet row i + 2: get_formula strips the parentheses
\* BinOp.resolve puts around the whole sum.
C19_DocSum ==
    DocSumAtOrigin =>
        /\ last.result.ok
        /\ DocGrid[2][3] = Str("='Sheet1'!A2+'Sheet1'!B2")
        /\ \A i \in 0..2 :
              DocGrid[i + 2][3] = Str("='Sheet1'!A" \o ToString(i + 2)
                                      \o "+'Sheet1'!B" \o ToString(i + 2))

\* the rows of the docstring example as Workbook.to_xlsx reads them
C19_Witness ==
    /\ DocSumAtOrigin
    /\ last.op = "iterrows"
    /\ last.result.ok
    /\ last.result.val[1][3] = Str("col_3")
    /\ last.result.val[2][3] = Str("='Sheet1'!A2+'Sheet1'!B2")

----------------------------------------------------------------------------
(* One worksheet with free-standing values, with or without a table, read  *)
(* with iterrows().                                                        *)

MaxValues == 2

\* what the caller passes to add_value: a number, a styled string and an
\* expression that needs no table
ValueSamples ==
    {Num(7), Value(Str("x"), None), Expr(Formula("NOW", <<>>))}

\* sheet.add_value(value, row, col)
AddValueAny ==
    \E v \in ValueSamples, r \in {0, MaxRow}, c \in {0, MaxLeft} :
        /\ Len(values["Sheet1"]) < MaxValues
        /\ AddValue("Sheet1", v, r, c)

\* sheet.add_table(table): one table of plain data at the origin
AddOneTable ==
    \E n \in {0, MaxDataRows} :
        /\ tables["Sheet1"] = <<>>
        /\ AddTable("Sheet1", PlainTable("table_1", n), FALSE, 0, 0, MaxSpaces)

NextValues == AddValueAny \/ AddOneTable \/ IterrowsSheet

SpecValues == InitSheet /\ [][NextValues]_vars

\* what iterrows shows for a free-standing value
Shown(value) ==
    IF IsExpr(Unwrap(value)) THEN Str("=NOW()") ELSE Unwrap(value)

\* C13 as stated: after add_value(v, r, c), whatever tables are registered,
\* iterrows yields a rectangular grid of at least r + 1 rows and c + 1
\* columns whose cell (r, c) is v (unwrapped, or its formula string).
C13_ValueShown ==
    last.op = "iterrows" =>
        \A i \in 1..Len(values["Sheet1"]) :
            LET v == values["Sheet1"][i]
            IN  /\ last.result.ok
                /\ Len(last.result.val) >= v.row + 1
                /\ \A r \in 1..Len(last.result.val) :
                      /\ Len(last.result.val[r]) = Len(last.result.val[1])
                      /\ Len(last.result.val[r]) >= v.col + 1
                /\ last.result.val[v.row + 1][v.col + 1] = Shown(v.value)

\* what the code does keep: a value on the diagonal of an empty worksheet is
\* shown at its place
C13_OnDiagonal ==
    (/\ last.op = "iterrows"
     /\ tables["Sheet1"] = <<>>
     /\ \A i \in 1..Len(values["Sheet1"]) :
           values["Sheet1"][i].row = values["Sheet1"][i].col) =>
        /\ last.result.ok
        /\ \A i \in 1..Len(values["Sheet1"]) :
              last.result.val[values["Sheet1"][i].row + 1][values["Sheet1"][i].col + 1]
                  = Shown(values["Sheet1"][i].value)

\* one value below the first row of an otherwise empty worksheet
C13_FailingInput ==
    /\ last.op = "iterrows"
    /\ tables["Sheet1"] = <<>>
    /\ values["Sheet1"] = <<[row |-> MaxRow, col |-> 0, value |-> Num(7)]>>
    /\ last.result = Err("IndexError")

----------------------------------------------------------------------------
(* A worksheet with an ArrayFormula table, alone or under a table of plain *)
(* data its formula refers to, read with iterrows(workbook) and with       *)
(* get_data.                                                               *)

\* the formulas of the array formula: one needing no table, one over a
\* column of table_1
ArrayFormulas ==
    {Formula("NOW", <<>>),
     Formula("TRANSPOSE", <<Column(<<"A">>, FALSE, "table_1")>>)}

InitArray ==
    /\ worksheets = <<"Sheet1">>
    /\ \E f \in ArrayFormulas, w \in {1, MaxDataCols}, h \in {1, MaxDataRows},
          with_table \in BOOLEAN, top \in {0, MaxTop}, left \in {0, MaxLeft} :
          LET t == PlainTable("table_1", MaxDataRows)
              a == [name |-> "array", table |-> ArrayFormula("array", f, w, h),
                    row |-> top + (IF with_table THEN height(t) + 1 ELSE 0),
                    col |-> left, has_row |-> TRUE, row_spaces |-> 1]
          IN  /\ tables = [s \in AllSheets |->
                             IF s # "Sheet1" THEN <<>>
                             ELSE IF with_table
                             THEN <<[name |-> t.name, table |-> t, row |-> 0,
                                     col |-> 0, has_row |-> FALSE,
                                     row_spaces |-> 1], a>>
                             ELSE <<a>>]
              /\ next_row = [s \in AllSheets |->
                               IF s = "Sheet1" THEN a.row + h + 1 ELSE 0]
    /\ values = [s \in AllSheets |-> <<>>]
    /\ active_table = NoTable
    /\ active_worksheet = None
    /\ sheet_iter = NoIter
    /\ charts = [s \in AllSheets |-> <<>>]
    /\ styles = <<>>
    /\ formula_values = [s \in AllSheets |-> <<>>]
    /\ last = [op |-> "init"]

\* table.get_data(workbook, row, col) on the k-th table of the worksheet, an
\* ArrayFormula: the call also leaves the filled frame in the table
GetDataArrayFormula(ws, k) ==
    /\ k \in 1..Len(tables[ws])
    /\ IsArrayFormula(tables[ws][k].table)
    /\ \E r \in {ArrayFormula_get_data(tables[ws][k].table, WB, tables[ws][k].row,
                                       tables[ws][k].col)} :
          /\ tables' = [tables EXCEPT ![ws][k].table = r.table]
          /\ last' = [op |-> "get_data", ws |-> ws, item |-> tables[ws][k],
                      prev_active_table |-> active_table, result |-> r.result]
          /\ active_table' = active_table_after(active_table, r.table)
    /\ UNCHANGED <<worksheets, values, next_row, active_worksheet, sheet_iter,
                   charts, styles, formula_values>>

GetDataArray == \E k \in 1..2 : GetDataArrayFormula("Sheet1", k)

IterrowsArray == Iterrows("Sheet1", TRUE)

NextArray == GetDataArray \/ IterrowsArray

SpecArray == InitArray /\ [][NextArray]_vars

\* the registry item of the array formula
ArrayItem(items) == items[CHOOSE k \in 1..Len(items) : IsArrayFormula(items[k].table)]

\* C14 as stated: iterrows(workbook) over a worksheet with an ArrayFormula
\* (no precomputed value) produces the rows, and every cell of the array
\* formula's footprint holds the same string "{=...}".
C14_ArrayFootprint ==
    last.op = "iterrows" =>
        LET a == ArrayItem(last.prev_tables)
        IN  /\ last.result.ok
            /\ \A r \in 1..Len(a.table.index), c \in 1..Len(a.table.columns) :
                  LET cell == last.result.val[a.row + r][a.col + c]
                  IN  /\ cell = last.result.val[a.row + 1][a.col + 1]
                      /\ cell.k = "str"
                      /\ SubSeq(cell.s, 1, 2) = "{="
                      /\ SubSeq(cell.s, Len(cell.s), Len(cell.s)) = "}"

\* what the code does keep: ArrayFormula.get_data called with three
\* arguments returns a height x width grid filled with one "{=...}" string,
\* when its formula resolves
C14_DirectGetData ==
    (last.op = "get_data" /\ last.result.ok) =>
        LET t == last.item.table
            f == get_formula(t.formula, WB, last.item.row, last.item.col)
        IN  /\ last.result.val.shape = <<Len(t.index), Len(t.columns)>>
            /\ \A r \in 1..Len(t.index), c \in 1..Len(t.columns) :
                  last.result.val.rows[r][c] = Str("{" \o f.val \o "}")

\* the smallest worksheet of the claim: one 1 x 1 array formula {=NOW()}
C14_FailingInput ==
    /\ last.op = "iterrows"
    /\ Len(last.prev_tables) = 1
    /\ last.prev_tables[1].table.formula = Formula("NOW", <<>>)
    /\ Len(last.prev_tables[1].table.index) = 1
    /\ Len(last.prev_tables[1].table.columns) = 1
    /\ last.result = Err("TypeError")

\* a 3-argument get_data of an array formula over a column of table_1
C14_DirectWitness ==
    /\ last.op = "get_data"
    /\ last.item.row = 5 /\ last.item.col = 0
    /\ last.result =
         Ok([shape |-> <<1, 1>>,
             rows |-> << <<Str("{=TRANSPOSE('Sheet1'!$A$2:$A$4)}")>> >>])

\* C21: materializing a table never changes it: after Table.get_data or
\* ArrayFormula.get_data, and after Worksheet.iterrows, every table of the
\* worksheet has the data grid, the row and column labels, the layout flags
\* and the expressions it had before the call.
C21_TableUnchanged ==
    /\ last.op = "get_data" =>
          ItemOf(tables[last.ws], last.item.name).table = last.item.table
    /\ last.op = "iterrows" =>
          \A k \in 1..Len(last.prev_tables) :
              last.prev_tables[k].name # None =>
                  ItemOf(tables[last.ws], last.prev_tables[k].name).table
                      = last.prev_tables[k].table

\* ArrayFormula("array", Formula("NOW"), 1, 1).get_data(workbook, row, col):
\* the frame of the table held None before the call and holds the formula
\* string after it
C21_FailingInput ==
    /\ last.op = "get_data"
    /\ last.result.ok
    /\ last.item.table.formula = Formula("NOW", <<>>)
    /\ last.item.table.cells = << <<Empty>> >>
    /\ ItemOf(tables[last.ws], last.item.name).table.cells = << <<Str("{=NOW()}")>> >>

\* C15: Table.get_data(workbook, ...) makes the table the workbook's active
\* table for the duration of the call, and on every exit path, a failing
\* resolution included, leaves active_table at the value it had before the
\* call.  During the call an unqualified reference finds the table (so the
\* docstring table, whose references are all unqualified, materializes);
\* after the call it is the caller's active table that a lookup sees again.
C15_ActiveTableRestored ==
    last.op = "get_data" =>
        /\ active_table = last.prev_active_table
        /\ Workbook_get_table(WB, None) =
              Workbook_get_table([WB EXCEPT !.active_table = last.prev_active_table],
                                 None)
        /\ last.item.table.cells[1][Len(last.item.table.columns)] = Expr(DocSum) =>
              /\ last.result.ok
              /\ Workbook_get_table([WB EXCEPT !.active_table = last.item.table],
                                    None) = Found(last.item.table, last.ws)

\* a get_data that raised LabelNotFound part-way through its frame
C15_Witness ==
    /\ last.op = "get_data"
    /\ last.item.name = "table"
    /\ last.item.table.cells[1][3] = Expr(Cell(<<"col_1">>, <<"9">>, 0, None))
    /\ last.result = Err("KeyError")
    /\ active_table = last.prev_active_table

----------------------------------------------------------------------------
(* worksheet.py: Worksheet.to_xlsx(workbook=workbook), lines 426-576, and  *)
(* chart.py.  What the call does to xlsxwriter is the sequence of the      *)
(* calls it makes, in order.  The tables of the model carry the default    *)
(* style and no column widths and the worksheets no row group, so of the   *)
(* formats (lines 470-473) only the plain one is asked for, and lines      *)
(* 519-521 and 564-574 make no call.                                       *)

\* chart.add_series(values, categories=categories); categories is Empty when
\* the caller leaves it out
Series(values_expr, categories) == [values |-> values_expr, categories |-> categories]

\* sheet.add_chart(chart, row, col) with the series added to the chart
Chart(series, row, col) == [series |-> series, row |-> row, col |-> col]

\* str.startswith
StartsWith(s, prefix) ==
    Len(s) >= Len(prefix) /\ SubSeq(s, 1, Len(prefix)) = prefix

RECURSIVE LStripEquals(_)
\* str.lstrip("=")
LStripEquals(s) ==
    IF StartsWith(s, "=") THEN LStripEquals(SubSeq(s, 2, Len(s))) ELSE s

\* lines 426 and 470-473: the worksheet and the plain format are made
Opening(ws) ==
    <<[call |-> "add_worksheet", name |-> ws], [call |-> "add_format"]>>

\* lines 479-495 writing every string with ws.write
CellCallAsText(ir, ic, cell) ==
    [call |-> "write", row |-> ir, col |-> ic, cell |-> cell]

\* lines 479-495: the call made for the cell at (ir, ic) of the grid
CellCall(ir, ic, cell) ==
    IF cell.k = "str" /\ StartsWith(cell.s, "=")
    THEN [call |-> "write_formula", row |-> ir, col |-> ic, cell |-> cell]
    ELSE IF cell.k = "str" /\ StartsWith(cell.s, "{=")
    THEN [call |-> "continue", row |-> ir, col |-> ic, cell |-> cell]
    ELSE [call |-> "write", row |-> ir, col |-> ic, cell |-> cell]

\* lines 476-495: the calls of the two loops over the rows iterrows yielded
GridCalls(grid, w) ==
    SelectSeq([n \in 1..(Len(grid) * w) |->
                 CellCall((n - 1) \div w, (n - 1) % w,
                          grid[((n - 1) \div w) + 1][((n - 1) % w) + 1])],
              LAMBDA c : c.call # "continue")

\* lines 504-516: write_array_formula for the upper left cell of the array
\* formula and write_formula for every other cell of data
ArrayCalls(item, data, formula) ==
    LET h == data.shape[1]
        w == data.shape[2]
    IN  [n \in 1..(h * w) |->
           IF n = 1
           THEN [call |-> "write_array_formula", row |-> item.row, col |-> item.col,
                 bottom |-> item.row + h - 1, right |-> item.col + w - 1,
                 cell |-> Str(formula)]
           ELSE [call |-> "write_formula", row |-> item.row + ((n - 1) \div w),
                 col |-> item.col + ((n - 1) % w),
                 cell |-> data.rows[((n - 1) \div w) + 1][((n - 1) % w) + 1]]]

\* lines 500-516 for one array formula given what its get_data and then the
\* get_formula of its formula returned or raised
ArrayWritten(item, got, f) ==
    IF ~got.result.ok THEN [result |-> got.result, calls |-> <<>>]
    ELSE IF ~f.ok THEN [result |-> f, calls |-> <<>>]
    ELSE [result |-> Ok(None), calls |-> ArrayCalls(item, got.result.val, f.val)]

\* the calls made, then what came next
Then(calls, r) == [result |-> r.result, calls |-> calls \o r.calls]

RECURSIVE ArraysWritten(_, _)
\* lines 499-516 over the tables that are array formulas.  iterrows raises
\* for every ArrayFormula (line 136), so past line 476 there is none.
ArraysWritten(wb, items) ==
    IF Len(items) = 0 THEN [result |-> Ok(None), calls |-> <<>>]
    ELSE IF ~IsArrayFormula(Head(items).table) THEN ArraysWritten(wb, Tail(items))
    ELSE LET one == ArrayWritten(Head(items),
                        ArrayFormula_get_data(Head(items).table, wb,
                                              Head(items).row, Head(items).col),
                        get_formula(Head(items).table.formula, wb,
                                    Head(items).row, Head(items).col))
         IN  IF one.result.ok THEN Then(one.calls, ArraysWritten(wb, Tail(items)))
             ELSE one

\* chart.py 89-94 for one series: the resolved values and categories, or the
\* first exception
SeriesResolved(s, wb, row, col) ==
    LET v == get_formula(s.values, wb, row, col)
    IN  IF ~v.ok THEN v
        ELSE IF s.categories = Empty THEN Ok([values |-> v.val, categories |-> None])
        ELSE LET c == get_formula(s.categories, wb, row, col)
             IN  IF ~c.ok THEN c
                 ELSE Ok([values |-> v.val, categories |-> c.val])

\* lines 535-541: a formula that names no sheet is given this one
OnThisSheet(ws, f) ==
    IF f # None /\ StartsWith(f, "=") /\ FirstBang(f) = 0
    THEN "='" \o ws \o "'!" \o LStripEquals(f)
    ELSE f

\* lines 527-561 for one chart, res being what iter_series yields or raises
\* series after series: add_chart, add_series for every series up to the
\* first that does not resolve, and set_size and insert_chart when all did
ChartWritten(ws, ch, res) ==
    LET bad == {j \in 1..Len(res) : ~res[j].ok}
        first_bad == CHOOSE j \in bad : \A i \in bad : j <= i
        added(n) == [j \in 1..n |->
                       [call |-> "add_series",
                        values |-> OnThisSheet(ws, res[j].val.values),
                        categories |-> OnThisSheet(ws, res[j].val.categories)]]
    IN  IF bad # {}
        THEN [result |-> res[first_bad],
              calls |-> <<[call |-> "add_chart"]>> \o added(first_bad - 1)]
        ELSE [result |-> Ok(None),
              calls |-> <<[call |-> "add_chart"]>> \o added(Len(res))
                        \o <<[call |-> "set_size"],
                             [call |-> "insert_chart", row |-> ch.row,
                              col |-> ch.col]>>]

RECURSIVE ChartsWritten(_, _, _)
\* lines 524-561 over the charts of the worksheet, in the order they were added
ChartsWritten(wb, ws, chs) ==
    IF Len(chs) = 0 THEN [result |-> Ok(None), calls |-> <<>>]
    ELSE LET one == ChartWritten(ws, Head(chs),
                        [j \in 1..Len(Head(chs).series) |->
                           SeriesResolved(Head(chs).series[j], wb, Head(chs).row,
                                          Head(chs).col)])
         IN  IF one.result.ok THEN Then(one.calls, ChartsWritten(wb, ws, Tail(chs)))
             ELSE one

\* lines 499-561 once the cells are written: the array formulas, then the charts
AfterCells(wb, ws, chs, arrays) ==
    IF arrays.result.ok THEN Then(arrays.calls, ChartsWritten(wb, ws, chs))
    ELSE arrays

\* lines 426-576 given what iterrows yielded or raised on its first row:
\* [result, tables, calls]
Written(wb, ws, chs, rows) ==
    IF ~rows.result.ok
    THEN [result |-> rows.result, tables |-> rows.tables,
          formula_values |-> rows.formula_values, calls |-> Opening(ws)]
    ELSE [tables |-> rows.tables, formula_values |-> rows.formula_values] @@
         Then(Opening(ws)
              \o GridCalls(rows.result.val,
                           IF Len(rows.result.val) = 0 THEN 0
                           ELSE Len(rows.result.val[1])),
              AfterCells([wb EXCEPT !.tables[ws] = rows.tables], ws, chs,
                         ArraysWritten([wb EXCEPT !.tables[ws] = rows.tables],
                                       rows.tables)))

\* Worksheet.to_xlsx(workbook=workbook)
Worksheet_to_xlsx(wb, ws, items, vals, chs) ==
    Written(wb, ws, chs, iterrows(wb, ws, items, vals))

----------------------------------------------------------------------------
(* Workbook.to_xlsx of a workbook of two worksheets: the docstring table,  *)
(* a free-standing value and a chart on Sheet1, a second table on Sheet2.  *)
(* The export is the loop of lines 74-75: itersheets yields a worksheet,   *)
(* Worksheet.to_xlsx writes it, and the loop asks for the next one or is   *)
(* left by the exception.                                                  *)

\* what the caller puts in col_3 of the table of Sheet1
ExportExprs ==
    {DocSum, Cell(<<"col_9">>, NoLabel, 0, None),
     Column(<<"col_1">>, FALSE, "nosuch")}

\* Table("table_2", DataFrame({"ref": [e]})) of Sheet2
SecondTable(e) ==
    [id |-> "table_2",
     name |-> "table_2",
     columns |-> <<(<<"ref">>)>>,
     index |-> <<(<<"0">>)>>,
     col_depth |-> 1, idx_depth |-> 1,
     columns_names |-> <<None>>, index_names |-> <<None>>,
     cells |-> << <<e>> >>,
     include_columns |-> TRUE, include_index |-> FALSE]

\* the cell of the table of Sheet2: a number, a reference to the table of
\* Sheet1 by its qualified name, a reference to a table that does not exist
SecondCells ==
    {Num(1), Expr(Column(<<"col_1">>, FALSE, "Sheet1!table")),
     Expr(Column(<<"col_1">>, FALSE, "nosuch"))}

\* the charts of Sheet1: none, one whose series resolve, one whose values do
\* not, one whose second series has categories that do not
ExportCharts ==
    {<<>>,
     <<Chart(<<Series(Column(<<"col_1">>, FALSE, "table"), Empty)>>, MaxRow, 4)>>,
     <<Chart(<<Series(Column(<<"col_9">>, FALSE, "table"), Empty)>>, MaxRow, 4)>>,
     <<Chart(<<Series(Column(<<"col_1">>, FALSE, "table"),
                      Column(<<"col_2">>, TRUE, "table")),
               Series(Formula("NOW", <<>>), Column(<<"col_1">>, FALSE, "nosuch"))>>,
             MaxRow, 4)>>}

\* the free-standing values of Sheet1: none, or an expression over a table
\* that does not exist
ExportValues ==
    {<<>>,
     <<[row |-> 1, col |-> 1,
        value |-> Expr(Cell(<<"col_1">>, NoLabel, 0, "nosuch"))]>>}

InitExport ==
    /\ worksheets = <<"Sheet1", "Sheet2">>
    /\ \E e \in ExportExprs, c \in SecondCells, top \in {0, MaxTop} :
          tables = [s \in AllSheets |->
                      IF s = "Sheet1"
                      THEN <<[name |-> "table", table |-> DocTable(e, TRUE, FALSE),
                              row |-> top, col |-> 0, has_row |-> TRUE,
                              row_spaces |-> 1]>>
                      ELSE <<[name |-> "table_2", table |-> SecondTable(c),
                              row |-> 0, col |-> 0, has_row |-> FALSE,
                              row_spaces |-> 1]>>]
    /\ next_row = [s \in AllSheets |->
                     IF s = "Sheet1" THEN tables[s][1].row + 5 ELSE 3]
    /\ \E v \in ExportValues : values = [s \in AllSheets |->
                                           IF s = "Sheet1" THEN v ELSE <<>>]
    /\ \E chs \in ExportCharts : charts = [s \in AllSheets |->
                                             IF s = "Sheet1" THEN chs ELSE <<>>]
    /\ styles = <<>>
    /\ formula_values = [s \in AllSheets |-> <<>>]
    /\ active_table = NoTable
    /\ active_worksheet = None
    /\ sheet_iter = NoIter
    /\ last = [op |-> "init"]

\* Workbook.to_xlsx, lines 70-74: the loop asks itersheets for the first sheet
ExportStart == last.op = "init" /\ ItersheetsStart

\* line 75: worksheet.to_xlsx(workbook=self) for the worksheet just yielded
WorksheetToXlsx ==
    /\ last.op = "itersheets"
    /\ last.yielded # None
    /\ \E r \in {Worksheet_to_xlsx(WB, last.yielded, tables[last.yielded],
                                   values[last.yielded], charts[last.yielded])} :
          /\ tables' = [tables EXCEPT ![last.yielded] = r.tables]
          /\ formula_values' = [formula_values EXCEPT
                                    ![last.yielded] = r.formula_values]
          /\ last' = [op |-> "to_xlsx", ws |-> last.yielded,
                      prev_tables |-> tables[last.yielded],
                      result |-> r.result, calls |-> r.calls]
    /\ UNCHANGED <<worksheets, values, next_row, active_table, active_worksheet,
                   sheet_iter, charts, styles>>

\* line 74: the worksheet is written and the loop asks for the next one; after
\* the last one lines 77-80 return
ExportNext == last.op = "to_xlsx" /\ last.result.ok /\ ItersheetsNext

\* line 75 raised: the exception leaves Workbook.to_xlsx
ExportFails == last.op = "to_xlsx" /\ ~last.result.ok /\ ItersheetsClose

NextExport == ExportStart \/ WorksheetToXlsx \/ ExportNext \/ ExportFails

SpecExport == InitExport /\ [][NextExport]_vars

\* the export has ended: Workbook.to_xlsx returned or raised
ExportEnded ==
    \/ last.op = "itersheets_closed"
    \/ last.op = "itersheets" /\ last.yielded = None

\* C16: while Workbook.to_xlsx exports, the active worksheet is the worksheet
\* being exported (the one itersheets yielded, before and after its
\* Worksheet.to_xlsx), and once the export has returned, or has failed with
\* the error a worksheet raised, the active worksheet is the value it had
\* before the export started.
C16_ActiveWorksheet ==
    /\ (last.op = "itersheets" /\ last.yielded # None) =>
          /\ active_worksheet = last.yielded
          /\ active_worksheet = worksheets[sheet_iter.pos]
    /\ last.op = "to_xlsx" =>
          /\ active_worksheet = last.ws
          /\ active_worksheet = worksheets[sheet_iter.pos]
    /\ ExportEnded =>
          /\ active_worksheet = last.prev_active_worksheet
          /\ active_worksheet = None
          /\ sheet_iter = NoIter

\* the export failed on Sheet2, whose table refers to a table that does not
\* exist (the failed iterrows left its None entry in the registry), after
\* Sheet1 was written
C16_Witness ==
    /\ last.op = "itersheets_closed"
    /\ tables["Sheet2"][1].table.cells[1][1] =
          Expr(Column(<<"col_1">>, FALSE, "nosuch"))
    /\ HasKey(tables["Sheet2"], None)
    /\ ~HasKey(tables["Sheet1"], None)
    /\ active_worksheet = None

\* the calls that write a cell, a formula, an array formula or a chart
WritesOf(calls) ==
    SelectSeq(calls, LAMBDA c : c.call \in {"write", "write_formula",
                                            "write_array_formula", "insert_chart"})

\* C18 as stated: when any resolution step of Worksheet.to_xlsx fails (table
\* grids, free-standing values, array formulas, chart series), no cell, no
\* formula, no array formula and no chart has been written for the worksheet.
C18_NoWriteOnFailure ==
    (last.op = "to_xlsx" /\ ~last.result.ok) => WritesOf(last.calls) = <<>>

\* the grid iterrows gave the last Worksheet.to_xlsx
GridOfLast ==
    iterrows([WB EXCEPT !.tables[last.ws] = last.prev_tables], last.ws,
             last.prev_tables, values[last.ws]).result

\* the grid of the last Worksheet.to_xlsx has been written: every cell holding
\* a formula with write_formula, every other cell with write, at its place
GridWritten(grid, calls) ==
    \A r \in 1..Len(grid) : \A c \in 1..Len(grid[r]) :
        \E i \in 1..Len(calls) :
            /\ calls[i].call = IF grid[r][c].k = "str" /\ StartsWith(grid[r][c].s, "=")
                               THEN "write_formula" ELSE "write"
            /\ calls[i].row = r - 1 /\ calls[i].col = c - 1
            /\ calls[i].cell = grid[r][c]

\* C18 amended: Worksheet.to_xlsx resolves the whole grid of the worksheet
\* (table grids and free-standing values) before it writes the first cell, so
\* when that resolution fails nothing is written for the worksheet; the
\* series of the charts are resolved after the cells have been written, so
\* when a series fails the cells of the worksheet are written already, and
\* only the chart of that series is not inserted.
C18_GridBeforeWrites ==
    last.op = "to_xlsx" =>
        /\ ~GridOfLast.ok =>
              /\ last.result = GridOfLast
              /\ WritesOf(last.calls) = <<>>
        /\ GridOfLast.ok =>
              /\ GridWritten(GridOfLast.val, last.calls)
              /\ ~last.result.ok =>
                    /\ charts[last.ws] # <<>>
                    /\ Len(SelectSeq(last.calls, LAMBDA c : c.call = "insert_chart"))
                          < Len(charts[last.ws])

\* a free-standing value over a missing table stops Worksheet.to_xlsx of
\* Sheet1 before any cell is written
C18_Witness ==
    /\ last.op = "to_xlsx"
    /\ last.ws = "Sheet1"
    /\ last.prev_tables[1].table = DocTable(DocSum, TRUE, FALSE)
    /\ values["Sheet1"] # <<>>
    /\ last.result = Err("KeyError")
    /\ last.calls = Opening("Sheet1")

\* a chart series over a missing column stops Worksheet.to_xlsx of Sheet1
\* after its cells were written
C18_ChartFails ==
    /\ last.op = "to_xlsx"
    /\ last.ws = "Sheet1"
    /\ values["Sheet1"] = <<>>
    /\ last.result = Err("KeyError")
    /\ Len(WritesOf(last.calls)) = 12
    /\ \E i \in 1..Len(last.calls) :
          last.calls[i] = [call |-> "write_formula", row |-> 1, col |-> 2,
                           cell |-> Str("='Sheet1'!A2+'Sheet1'!B2")]

----------------------------------------------------------------------------
(* style.py: CellStyle.  A style object is [name, fields, derived]: name   *)
(* stands for the identity of the object, fields are its attributes (None  *)
(* is Empty, a bool Bool(b), a number Num(n), a string Str(s)), derived is *)
(* its __derived_styles, the styles already made from it keyed by the      *)
(* identity of the other operand.                                          *)

\* CellStyle._sizes
_sizes ==
    [x \in {"x-small", "small", "normal", "large", "x-large", "xx-large"} |->
       CASE x = "x-small" -> 6 [] x = "small" -> 8 [] x = "normal" -> 11
         [] x = "large" -> 16 [] x = "x-large" -> 20 [] x = "xx-large" -> 24]

\* CellStyle.__init__: the attributes it stores
CellStyle(is_percentage, decimal_places, date_format, thousands_sep, excel_number_format, bold, size, text_color, bg_color, text_wrap, border, align, valign) ==
    [is_percentage |-> is_percentage,
     decimal_places |-> decimal_places,
     date_format |-> date_format,
     thousands_sep |-> thousands_sep,
     __excel_number_format |-> excel_number_format,
     bold |-> bold,
     size |-> IF size.k = "str" THEN Num(_sizes[size.s]) ELSE size,
     text_color |-> text_color,
     bg_color |-> bg_color,
     text_wrap |-> text_wrap,
     border |-> border,
     align |-> align,
     valign |-> valign]

RECURSIVE Replace(_, _, _)
\* str.replace(old, new)
Replace(s, old, new) ==
    IF Len(s) < Len(old) THEN s
    ELSE IF SubSeq(s, 1, Len(old)) = old
    THEN new \o Replace(SubSeq(s, Len(old) + 1, Len(s)), old, new)
    ELSE SubSeq(s, 1, 1) \o Replace(SubSeq(s, 2, Len(s)), old, new)

RECURSIVE Zeros(_)
\* "0" * n
Zeros(n) == IF n <= 0 THEN "" ELSE "0" \o Zeros(n - 1)

\* the truth value of an attribute that is None or a bool
Truthy(x) == x.k = "bool" /\ x.v

\* lines 92-100: the Python date format as an Excel number format
DateFormatted(s) ==
    Replace(Replace(Replace(Replace(Replace(Replace(Replace(Replace(s,
        "%Y", "yyyy"), "%y", "yy"), "%m", "mm"), "%b", "mmm"), "%d", "dd"),
        "%H", "hh"), "%M", "mm"), "%S", "ss")

\* lines 81-89: the format made of thousands_sep, decimal_places and
\* is_percentage
DerivedFormat(f) ==
    (IF Truthy(f.thousands_sep) THEN "#,#00" ELSE "0")
    \o (IF f.decimal_places # Empty /\ f.decimal_places.v > 0
        THEN "." \o Zeros(f.decimal_places.v) ELSE "")
    \o (IF Truthy(f.is_percentage) THEN "%" ELSE "")

\* lines 77-89: the explicit format when there is one
NumberFormat(f) ==
    IF f.__excel_number_format # Empty THEN f.__excel_number_format.s
    ELSE DerivedFormat(f)

\* lines 102-104
NoneIfZero(number_format) ==
    IF number_format = "0" THEN Empty ELSE Str(number_format)

\* the excel_number_format property of a style with the attributes f
excel_number_format(f) ==
    NoneIfZero(IF f.date_format # Empty THEN DateFormatted(f.date_format.s)
               ELSE NumberFormat(f))

\* lines 113-115 returning b whenever b is not None
_if_none_prefer_b(a, b) == IF b # Empty THEN b ELSE a

\* lines 113-115: a if a is not None, else b
_if_none(a, b) == IF a # Empty THEN a ELSE b

\* lines 117-130: the attributes of self + other
Merged(self, other) ==
    CellStyle(_if_none(other.is_percentage, self.is_percentage),
              _if_none(other.decimal_places, self.decimal_places),
              _if_none(other.date_format, self.date_format),
              _if_none(other.thousands_sep, self.thousands_sep),
              _if_none(other.__excel_number_format, self.__excel_number_format),
              _if_none(other.bold, self.bold),
              _if_none(other.size, self.size),
              _if_none(other.text_color, self.text_color),
              _if_none(other.bg_color, self.bg_color),
              _if_none(other.text_wrap, self.text_wrap),
              _if_none(other.border, self.border),
              _if_none(other.align, self.align),
              _if_none(other.valign, self.valign))

\* the identity of the style made by x + y
SumName(x, y) == "(" \o x \o "+" \o y \o ")"

\* CellStyle.__add__: styles[x] + styles[y]
StyleAdd(x, y) ==
    /\ HasKey(styles, x) /\ HasKey(styles, y)
    /\ IF HasKey(ItemOf(styles, x).derived, y)
       THEN \* lines 108-109: the style made before is returned
            /\ styles' = styles
            /\ last' = [op |-> "add", self |-> x, other |-> y, cached |-> TRUE,
                        result |-> ItemOf(ItemOf(styles, x).derived, y).style]
       ELSE \* lines 117-133
            /\ styles' =
                  Append([i \in 1..Len(styles) |->
                            IF styles[i].name = x
                            THEN [styles[i] EXCEPT
                                    !.derived = Append(@, [name |-> y,
                                                           style |-> SumName(x, y)])]
                            ELSE styles[i]],
                         [name |-> SumName(x, y),
                          fields |-> Merged(ItemOf(styles, x).fields,
                                            ItemOf(styles, y).fields),
                          derived |-> <<>>])
            /\ last' = [op |-> "add", self |-> x, other |-> y, cached |-> FALSE,
                        result |-> SumName(x, y)]
    /\ UNCHANGED <<worksheets, tables, values, next_row, active_table,
                   active_worksheet, sheet_iter, charts, formula_values>>

\* style.excel_number_format read by the caller
ReadNumberFormat(x) ==
    /\ HasKey(styles, x)
    /\ last' = [op |-> "excel_number_format", self |-> x,
                result |-> excel_number_format(ItemOf(styles, x).fields)]
    /\ UNCHANGED <<worksheets, tables, values, next_row, active_table,
                   active_worksheet, sheet_iter, charts, styles, formula_values>>

----------------------------------------------------------------------------
(* Three styles a, b and c made by the caller, merged as (a + b) + c and   *)
(* as a + (b + c), any merge repeated at will, and their number formats.   *)

\* the styles the caller makes
StyleSamples ==
    {CellStyle(Empty, Empty, Empty, Empty, Empty, Empty, Empty, Empty, Empty,
               Empty, Empty, Empty, Empty),
     CellStyle(Empty, Empty, Empty, Empty, Str("0.00"), Bool(TRUE), Str("large"),
               Empty, Empty, Empty, Empty, Empty, Empty),
     CellStyle(Empty, Empty, Str("%Y-%m-%d"), Empty, Empty, Bool(FALSE), Empty,
               Num(16711680), Empty, Empty, Empty, Empty, Empty),
     CellStyle(Bool(TRUE), Num(2), Empty, Bool(TRUE), Empty, Empty, Empty, Empty,
               Num(255), Bool(TRUE), Num(1), Str("center"), Str("top")),
     CellStyle(Empty, Num(1), Empty, Empty, Str("0"), Empty, Num(8), Empty,
               Empty, Empty, Empty, Empty, Empty)}

InitStyle ==
    /\ worksheets = <<>>
    /\ tables = [s \in AllSheets |-> <<>>]
    /\ values = [s \in AllSheets |-> <<>>]
    /\ next_row = [s \in AllSheets |-> 0]
    /\ active_table = NoTable
    /\ active_worksheet = None
    /\ sheet_iter = NoIter
    /\ charts = [s \in AllSheets |-> <<>>]
    /\ \E a \in StyleSamples, b \in StyleSamples, c \in StyleSamples :
          styles = <<[name |-> "a", fields |-> a, derived |-> <<>>],
                     [name |-> "b", fields |-> b, derived |-> <<>>],
                     [name |-> "c", fields |-> c, derived |-> <<>>]>>
    /\ formula_values = [s \in AllSheets |-> <<>>]
    /\ last = [op |-> "init"]

\* the merges the caller makes
MergeCalls ==
    {<<"a", "b">>, <<"(a+b)", "c">>, <<"b", "c">>, <<"a", "(b+c)">>}

AddStyles == \E m \in MergeCalls : StyleAdd(m[1], m[2])

ReadAnyNumberFormat ==
    \E x \in {"a", "b", "c", "(a+b)", "(b+c)", "((a+b)+c)", "(a+(b+c))"} :
        ReadNumberFormat(x)

NextStyle == AddStyles \/ ReadAnyNumberFormat

SpecStyle == InitStyle /\ [][NextStyle]_vars

\* C17: a + b has, for every field, b's value when that is not None and a's
\* value otherwise, a merge made again returns the style made the first
\* time, and (a + b) + c has the same field values as a + (b + c), whatever
\* merges were made and cached before.
C17_MergeAssociative ==
    /\ \A i \in 1..Len(styles) : \A j \in 1..Len(styles[i].derived) :
          LET a == styles[i].fields
              b == ItemOf(styles, styles[i].derived[j].name).fields
              sum == ItemOf(styles, styles[i].derived[j].style).fields
          IN  \A f \in DOMAIN sum :
                  sum[f] = IF b[f] # Empty THEN b[f] ELSE a[f]
    /\ (HasKey(styles, "((a+b)+c)") /\ HasKey(styles, "(a+(b+c))")) =>
          ItemOf(styles, "((a+b)+c)").fields = ItemOf(styles, "(a+(b+c))").fields
    /\ (last.op = "add" /\ last.cached) =>
          /\ HasKey(styles, last.result)
          /\ \A f \in DOMAIN ItemOf(styles, last.result).fields :
                ItemOf(styles, last.result).fields[f] =
                    IF ItemOf(styles, last.other).fields[f] # Empty
                    THEN ItemOf(styles, last.other).fields[f]
                    ELSE ItemOf(styles, last.self).fields[f]

\* both groupings of three different styles are made, the last merge from
\* the cache, and bold comes from b, the size from a, the colour from c
C17_Witness ==
    /\ HasKey(styles, "((a+b)+c)") /\ HasKey(styles, "(a+(b+c))")
    /\ last.op = "add" /\ last.cached
    /\ ItemOf(styles, "a").fields.size = Num(16)
    /\ ItemOf(styles, "b").fields.bold = Bool(FALSE)
    /\ ItemOf(styles, "c").fields.bg_color = Num(255)
    /\ ItemOf(styles, "((a+b)+c)").fields.size = Num(16)
    /\ ItemOf(styles, "(a+(b+c))").fields.bold = Bool(FALSE)
    /\ ItemOf(styles, "(a+(b+c))").fields.bg_color = Num(255)

\* C20 as stated: a style with an explicit excel_number_format reports that
\* string as its number format whatever its other format fields are, also
\* when the style was made by merging.
C20_ExplicitFormat ==
    (/\ last.op = "excel_number_format"
     /\ ItemOf(styles, last.self).fields.__excel_number_format # Empty) =>
        last.result = ItemOf(styles, last.self).fields.__excel_number_format

\* what the code does keep: the explicit format wins over is_percentage,
\* decimal_places and thousands_sep, in a style with no date_format and an
\* explicit format other than "0"
C20_OverNumericFields ==
    (/\ last.op = "excel_number_format"
     /\ ItemOf(styles, last.self).fields.__excel_number_format # Empty
     /\ ItemOf(styles, last.self).fields.__excel_number_format # Str("0")
     /\ ItemOf(styles, last.self).fields.date_format = Empty) =>
        last.result = ItemOf(styles, last.self).fields.__excel_number_format

\* the merge of CellStyle(excel_number_format="0.00", ...) and
\* CellStyle(date_format="%Y-%m-%d", ...) reports the date format
C20_FailingInput ==
    /\ last.op = "excel_number_format"
    /\ last.self = "(a+b)"
    /\ ItemOf(styles, last.self).fields.__excel_number_format = Str("0.00")
    /\ ItemOf(styles, last.self).fields.date_format = Str("%Y-%m-%d")
    /\ last.result = Str("yyyy-mm-dd")

\* CellStyle(excel_number_format="0", decimal_places=1) reports None
C20_ExplicitZero ==
    /\ last.op = "excel_number_format"
    /\ last.self = "a"
    /\ ItemOf(styles, "a").fields.__excel_number_format = Str("0")
    /\ last.result = Empty

\* the explicit format over percentage, decimal places and thousands separator
C20_NumericWitness ==
    /\ last.op = "excel_number_format"
    /\ ItemOf(styles, last.self).fields.__excel_number_format = Str("0.00")
    /\ ItemOf(styles, last.self).fields.thousands_sep = Bool(TRUE)
    /\ ItemOf(styles, last.self).fields.decimal_places = Num(2)
    /\ ItemOf(styles, last.self).fields.is_percentage = Bool(TRUE)
    /\ last.result = Str("0.00")

----------------------------------------------------------------------------
(* The whole-table references: a Column, an Index and a Range with their   *)
(* bounds left out, resolved against the one table of Sheet1, of any shape *)
(* and layout, a table with no data row included.                          *)

\* Column(first label, include_header, table="table_1"), Index(include_header,
\* table="table_1") and Range(first label, last label,
\* include_header=include_header, table="table_1") for the table t
WholeTableReferences(t, include_header) ==
    {Column(t.columns[1], include_header, t.name),
     Index(include_header, t.name),
     Range(t.columns[1], t.columns[Len(t.columns)], NoLabel, NoLabel,
           include_header, t.name)}

ResolveWhole ==
    \E include_header \in BOOLEAN :
        \E e \in WholeTableReferences(tables["Sheet1"][1].table, include_header) :
            Resolve(e, 0, 0)

NextBounds == ResolveWhole

SpecBounds == InitTable /\ [][NextBounds]_vars

\* index of the last ch of s, 0 when there is none
LastPos(s, ch) ==
    IF \E i \in 1..Len(s) : CharAt(s, i) = ch
    THEN CHOOSE i \in 1..Len(s) :
            CharAt(s, i) = ch /\ \A j \in (i + 1)..Len(s) : CharAt(s, j) # ch
    ELSE 0

Digits == <<"0", "1", "2", "3", "4", "5", "6", "7", "8", "9">>

RECURSIVE DecodeDigits(_)
\* the number a string of decimal digits stands for
DecodeDigits(s) ==
    IF Len(s) = 0 THEN 0
    ELSE 10 * DecodeDigits(SubSeq(s, 1, Len(s) - 1))
         + (CHOOSE k \in 1..10 : Digits[k] = CharAt(s, Len(s))) - 1

\* the row number printed in a fixed address $X$n
PrintedRow(addr) == DecodeDigits(SubSeq(addr, LastPos(addr, "$") + 1, Len(addr)))

\* the row numbers printed in the two corners of a range 'S'!$X$n:$Y$m
FirstPrintedRow(text) == PrintedRow(SubSeq(text, 1, LastPos(text, ":") - 1))

LastPrintedRow(text) == PrintedRow(SubSeq(text, LastPos(text, ":") + 1, Len(text)))

\* C30: for every table registered on a worksheet, a table with no data row
\* and a table without a header row included, a Column, Index or Range
\* reference with default bounds that resolves gives a range whose first row
\* is not below its last row and whose printed row numbers are at least 1.
C30_RangeWellFormed ==
    (last.op = "resolve" /\ last.result.ok) =>
        /\ FirstPrintedRow(last.result.val) <= LastPrintedRow(last.result.val)
        /\ FirstPrintedRow(last.result.val) >= 1
        /\ LastPrintedRow(last.result.val) >= 1

\* what the code does keep: the range is well formed when the table has a
\* data row, and it then runs from the first data row (from the header with
\* include_header) to the last data row
C30_WithDataRows ==
    (/\ last.op = "resolve"
     /\ last.result.ok
     /\ Len(tables["Sheet1"][1].table.index) >= 1) =>
        /\ FirstPrintedRow(last.result.val) <= LastPrintedRow(last.result.val)
        /\ FirstPrintedRow(last.result.val) >= 1
        /\ FirstPrintedRow(last.result.val) =
              tables["Sheet1"][1].row + 1
              + (IF last.e.include_header THEN 0
                 ELSE header_height(tables["Sheet1"][1].table))
        /\ LastPrintedRow(last.result.val) =
              tables["Sheet1"][1].row + height(tables["Sheet1"][1].table)

\* Column("c1_1", table="table_1") on a table with a header and no data row
\* at the origin: the range runs from row 2 up to row 1
C30_FailingInput ==
    /\ last.op = "resolve"
    /\ last.e.kind = "Column"
    /\ ~last.e.include_header
    /\ Len(tables["Sheet1"][1].table.index) = 0
    /\ last.result = Ok("'Sheet1'!$A$2:$A$1")

\* Range with its bounds left out on a table of no data row and no header at
\* the origin: the last row is printed as 0
C30_RowZero ==
    /\ last.op = "resolve"
    /\ last.e.kind = "Range"
    /\ last.e.include_header
    /\ Len(tables["Sheet1"][1].table.index) = 0
    /\ ~tables["Sheet1"][1].table.include_columns
    /\ last.result = Ok("'Sheet1'!$A$1:$A$0")

\* the ranges of the second test of the package, on a table of three rows
C30_DataRowsWitness ==
    /\ last.op = "resolve"
    /\ last.e.kind = "Column"
    /\ ~last.e.include_header
    /\ Len(tables["Sheet1"][1].table.index) = 3
    /\ last.result = Ok("'Sheet1'!$A$2:$A$4")

----------------------------------------------------------------------------
(* Building a binary operation: two operands, with or without a value, are *)
(* combined with each supported operator, as lhs + rhs, lhs / rhs, ... do  *)
(* through BinOp(lhs, rhs, op); what was built is then resolved.           *)

\* a cell of table_1, without a value and with one, the constants
\* _make_expr wraps, and a formula whose value is itself an expression
Operands ==
    {Cell(PlainColumns["table_1"][1], NoLabel, 0, "table_1"),
     WithValue(Cell(PlainColumns["table_1"][1], NoLabel, 0, "table_1"), Num(6)),
     ConstExpr(Num(0)), ConstExpr(Num(6)), ConstExpr(Str("A")), ConstExpr(Str("AB")),
     WithValue(Formula("NOW", <<>>), ConstExpr(Num(0)))}

InitFold ==
    /\ worksheets = <<"Sheet1">>
    /\ \E n \in 1..MaxDataRows :
          tables = [s \in AllSheets |->
                      IF s = "Sheet1"
                      THEN <<[name |-> "table_1", table |-> PlainTable("table_1", n),
                              row |-> 0, col |-> 0, has_row |-> TRUE,
                              row_spaces |-> 1]>>
                      ELSE <<>>]
    /\ values = [s \in AllSheets |-> <<>>]
    /\ next_row = [s \in AllSheets |-> 0]
    /\ active_table = NoTable
    /\ active_worksheet = None
    /\ sheet_iter = NoIter
    /\ charts = [s \in AllSheets |-> <<>>]
    /\ styles = <<>>
    /\ formula_values = [s \in AllSheets |-> <<>>]
    /\ \E lhs \in Operands, rhs \in Operands, op \in Operators :
          last = [op |-> "operands", lhs |-> lhs, rhs |-> rhs, operator |-> op]

\* BinOp(lhs, rhs, op)
Build ==
    /\ last.op = "operands"
    /\ last' = [op |-> "BinOp", lhs |-> last.lhs, rhs |-> last.rhs,
                operator |-> last.operator,
                result |-> BinOp_init(last.lhs, last.rhs, last.operator)]
    /\ UNCHANGED <<worksheets, tables, values, next_row, active_table,
                   active_worksheet, sheet_iter, charts, styles, formula_values>>

\* the operation that was built, resolved from the first data row
ResolveBuilt ==
    /\ last.op = "BinOp"
    /\ last.result.ok
    /\ last' = [op |-> "resolve_built", lhs |-> last.lhs, rhs |-> last.rhs,
                operator |-> last.operator, e |-> last.result.val,
                result |-> resolve(last.result.val, WB, 1, 0)]
    /\ UNCHANGED <<worksheets, tables, values, next_row, active_table,
                   active_worksheet, sheet_iter, charts, styles, formula_values>>

NextFold ==
    \/ Build
    \/ ResolveBuilt

SpecFold == InitFold /\ [][NextFold]_vars

\* "(lhs<op>rhs)" of the operands' own texts
TextOfParts(lhs, rhs, op) ==
    "(" \o resolve(lhs, WB, 1, 0).val \o op \o resolve(rhs, WB, 1, 0).val \o ")"

\* C29: whatever the operands' values, building a binary operation with a
\* supported operator succeeds, the result carries a value exactly when
\* both operands do, and it resolves to "(lhs<op>rhs)".
C29_FoldingNeverFails ==
    /\ last.op = "BinOp" =>
          /\ last.result.ok
          /\ has_value(last.result.val)
                <=> (has_value(last.lhs) /\ has_value(last.rhs))
    /\ last.op = "resolve_built" =>
          last.result = Ok(TextOfParts(last.lhs, last.rhs, last.operator))

\* What the code keeps: a construction fails only when both operands have
\* values; one that succeeds carries a value exactly when both operands do
\* and resolves to "(lhs<op>rhs)".
C29_WhenBuilt ==
    /\ (last.op = "BinOp" /\ ~last.result.ok) =>
          /\ has_value(last.lhs) /\ has_value(last.rhs)
          /\ last.result.err \in {"ZeroDivisionError", "TypeError"}
    /\ (last.op = "BinOp" /\ last.result.ok) =>
          (has_value(last.result.val)
              <=> (has_value(last.lhs) /\ has_value(last.rhs)))
    /\ last.op = "resolve_built" =>
          last.result = Ok(TextOfParts(last.lhs, last.rhs, last.operator))

\* Cell(col, value=6) / 0: the division is carried out while the operation
\* is built
C29_FailingInput ==
    /\ last.op = "BinOp"
    /\ last.operator = "/"
    /\ has_value(last.lhs)
    /\ last.rhs = ConstExpr(Num(0))
    /\ last.result = Err("ZeroDivisionError")

\* "A" & "AB": and_ is not defined on strings
C29_StringsAnd ==
    /\ last.op = "BinOp"
    /\ last.operator = "&"
    /\ last.lhs = ConstExpr(Str("A"))
    /\ last.rhs = ConstExpr(Str("AB"))
    /\ last.result = Err("TypeError")

\* an operation over two valued operands was built, folded and resolved
C29_FoldedWitness ==
    /\ last.op = "resolve_built"
    /\ has_value(last.e)
    /\ last.result.ok

----------------------------------------------------------------------------
(* Row-relative cell references: the docstring table with col_3 = Cell(col) *)
(* of its own table or of the table "other", the two tables at tops of     *)
(* their own, and a free-standing value holding Cell("col_a",              *)
(* table="other").                                                         *)

\* Cell(col, row_offset=off) and Cell("col_a", row_offset=off, table="other")
RelativeCells ==
    {Cell(<<"col_1">>, NoLabel, off, None) : off \in {0, 1}}
        \cup {Cell(<<"col_a">>, NoLabel, off, "other") : off \in {0, 1}}

\* sheet.add_value(Cell("col_a", row_offset=off, table="other"), d, d), or
\* no free-standing value
RelativeValues ==
    {<<>>} \cup {<<[row |-> d, col |-> d,
                    value |-> Expr(Cell(<<"col_a">>, NoLabel, off, "other"))]>> :
                 d \in {0, 1}, off \in {0, 1}}

InitRelative ==
    /\ worksheets = <<"Sheet1">>
    /\ \E e \in RelativeCells, include_columns \in BOOLEAN, include_index \in BOOLEAN,
          top \in {0, MaxTop}, other_top \in {0, MaxTop} :
          LET t == DocTable(e, include_columns, include_index)
          IN  /\ tables = [s \in AllSheets |->
                             IF s = "Sheet1"
                             THEN <<[name |-> t.name, table |-> t, row |-> top,
                                     col |-> 0, has_row |-> TRUE,
                                     row_spaces |-> 1],
                                    [name |-> "other", table |-> OtherTable,
                                     row |-> other_top, col |-> width(t) + 1,
                                     has_row |-> TRUE, row_spaces |-> 1]>>
                             ELSE <<>>]
              /\ next_row = [s \in AllSheets |->
                               IF s = "Sheet1"
                               THEN Max(top + height(t), other_top + height(OtherTable)) + 1
                               ELSE 0]
    /\ \E vals \in RelativeValues : values = [s \in AllSheets |->
                                                IF s = "Sheet1" THEN vals ELSE <<>>]
    /\ active_table = NoTable
    /\ active_worksheet = None
    /\ sheet_iter = NoIter
    /\ charts = [s \in AllSheets |-> <<>>]
    /\ styles = <<>>
    /\ formula_values = [s \in AllSheets |-> <<>>]
    /\ last = [op |-> "init"]

\* table.get_data(workbook, *sheet.get_table_pos("table"))
GetDataRelative == GetData("Sheet1", 1)

\* list(sheet.iterrows(workbook))
IterrowsRelative == Iterrows("Sheet1", TRUE)

NextRelative == GetDataRelative \/ IterrowsRelative

SpecRelative == InitRelative /\ [][NextRelative]_vars

RECURSIVE DigitsAtEnd(_)
\* how many decimal digits the text ends with
DigitsAtEnd(s) ==
    IF Len(s) = 0 THEN 0
    ELSE IF \E k \in 1..10 : Digits[k] = CharAt(s, Len(s))
    THEN 1 + DigitsAtEnd(SubSeq(s, 1, Len(s) - 1))
    ELSE 0

\* the row number a non-fixed address 'S'!Xn ends with
RelativeRow(text) ==
    DecodeDigits(SubSeq(text, Len(text) - DigitsAtEnd(text) + 1, Len(text)))

\* cell is the formula of a non-fixed address that prints sheet row number n
PrintsRow(cell, n) ==
    /\ cell.k = "str"
    /\ LastPos(cell.s, "$") = 0
    /\ RelativeRow(cell.s) = n

\* the table the reference e held by the registry entry own refers to
ReferredItem(items, own, e) == IF e.table = None THEN own ELSE ItemOf(items, e.table)

\* every col_3 cell of the docstring table, read from rows whose first row
\* and column are sheet row top and sheet column left, prints the row base
\* + its data row + row_offset, as a 1-based row number
Col3Prints(rows, top, left, item, base) ==
    \A i \in 0..2 :
        PrintsRow(rows[top + header_height(item.table) + i + 1]
                      [left + row_labels_width(item.table) + 3],
                  base + header_height(item.table) + i
                      + item.table.cells[1][3].e.row_offset + 1)

\* every free-standing value of vals prints the row base(v) + its own row
\* + row_offset
ValuesPrint(rows, vals, items, physical) ==
    \A k \in 1..Len(vals) :
        PrintsRow(rows[vals[k].row + 1][vals[k].col + 1],
                  (IF physical THEN 0 ELSE ItemOf(items, vals[k].value.e.table).row)
                      + vals[k].row + vals[k].value.e.row_offset + 1)

\* C22: a Cell reference with its row label omitted resolves to a non-fixed
\* address whose row is the physical sheet row of the cell being written
\* plus row_offset, whether the cell written is a cell of the same table, a
\* cell of another table placed at a different top row, or a free-standing
\* worksheet value.
C22_PhysicalRow ==
    /\ last.op = "get_data" =>
          /\ last.result.ok
          /\ Col3Prints(last.result.val.rows, 0, 0, last.item, last.item.row)
    /\ last.op = "iterrows" =>
          /\ last.result.ok
          /\ Col3Prints(last.result.val, last.prev_tables[1].row, 0,
                        last.prev_tables[1], last.prev_tables[1].row)
          /\ ValuesPrint(last.result.val, values[last.ws], last.prev_tables, TRUE)

\* What the code does: the row printed is the top row of the table referred
\* to, plus the row inside its own table (or, for a free-standing value, on
\* the sheet) of the cell being written, plus row_offset; that is the
\* physical row when the reference is to the cell's own table.
C22_RowOfReferredTable ==
    /\ last.op = "get_data" =>
          /\ last.result.ok
          /\ Col3Prints(last.result.val.rows, 0, 0, last.item,
                        ReferredItem(tables[last.ws], last.item,
                                     last.item.table.cells[1][3].e).row)
    /\ last.op = "iterrows" =>
          /\ last.result.ok
          /\ Col3Prints(last.result.val, last.prev_tables[1].row, 0,
                        last.prev_tables[1],
                        ReferredItem(last.prev_tables, last.prev_tables[1],
                                     last.prev_tables[1].table.cells[1][3].e).row)
          /\ ValuesPrint(last.result.val, values[last.ws], last.prev_tables, FALSE)

\* the docstring table at row MaxTop, with its header, refers to col_a of
\* the table "other" placed at row 0: the cell written in sheet row
\* MaxTop + 2 prints row 2
C22_FailingInput ==
    /\ last.op = "iterrows"
    /\ last.result.ok
    /\ last.prev_tables[1].row = MaxTop
    /\ last.prev_tables[2].row = 0
    /\ last.prev_tables[1].table = DocTable(Cell(<<"col_a">>, NoLabel, 0, "other"),
                                            TRUE, FALSE)
    /\ PrintsRow(last.result.val[MaxTop + 2][3], 2)

\* a free-standing value in sheet row 1 that refers to the table "other"
\* placed at row MaxTop prints row MaxTop + 2
C22_FreeStandingValue ==
    /\ last.op = "iterrows"
    /\ last.result.ok
    /\ last.prev_tables[2].row = MaxTop
    /\ Len(values[last.ws]) = 1
    /\ values[last.ws][1].row = 1
    /\ values[last.ws][1].value.e.row_offset = 0
    /\ PrintsRow(last.result.val[2][2], MaxTop + 2)

\* a reference to the cell's own table, the table placed at row MaxTop
C22_SameTableWitness ==
    /\ last.op = "iterrows"
    /\ last.result.ok
    /\ last.prev_tables[1].row = MaxTop
    /\ last.prev_tables[1].table = DocTable(Cell(<<"col_1">>, NoLabel, 1, None),
                                            TRUE, FALSE)
    /\ last.result.val[MaxTop + 2][3] = Str("='Sheet1'!A" \o ToString(MaxTop + 3))

----------------------------------------------------------------------------
(* Expressions that carry a known value: the docstring table with such an  *)
(* expression in col_3, a second table of one such cell, and a             *)
(* free-standing value the caller adds and replaces between passes of      *)
(* iterrows(workbook).                                                     *)

\* what the caller puts in col_3: a valued cell reference, 6 + 3 folded by
\* BinOp, a sum without a value, and a valued reference to a column the
\* table does not have
CachedExprs ==
    {WithValue(Cell(<<"col_1">>, NoLabel, 0, None), Num(6)),
     BinOp_init(ConstExpr(Num(6)), ConstExpr(Num(3)), "+").val,
     DocSum,
     WithValue(Cell(<<"col_9">>, NoLabel, 0, None), Num(1))}

\* what the caller passes to add_value: a formula with a value, one wrapped
\* in a Value, and one without a value
CachedValues ==
    {Expr(WithValue(Formula("NOW", <<>>), Num(5))),
     Value(Expr(WithValue(Formula("TODAY", <<>>), ConstExpr(Num(4)))), None),
     Expr(Formula("NOW", <<>>))}

\* where the caller puts it: on the first column, or on what is the third
\* column of the table when the table has no index
CachedPositions == {<<1, 0>>, <<2, 2>>}

InitCached ==
    /\ worksheets = <<"Sheet1">>
    /\ \E e \in CachedExprs, include_columns \in BOOLEAN, include_index \in BOOLEAN,
          top \in {0, MaxTop} :
          LET t == DocTable(e, include_columns, include_index)
          IN  /\ tables = [s \in AllSheets |->
                             IF s = "Sheet1"
                             THEN <<[name |-> t.name, table |-> t, row |-> top,
                                     col |-> 0, has_row |-> TRUE,
                                     row_spaces |-> 1],
                                    [name |-> "table_2",
                                     table |-> SecondTable(
                                        Expr(WithValue(Formula("NOW", <<>>), Num(2)))),
                                     row |-> MaxTop - top, col |-> width(t) + 1,
                                     has_row |-> TRUE, row_spaces |-> 1]>>
                             ELSE <<>>]
              /\ next_row = [s \in AllSheets |->
                               IF s = "Sheet1" THEN MaxTop + height(t) + 1 ELSE 0]
    /\ values = [s \in AllSheets |-> <<>>]
    /\ active_table = NoTable
    /\ active_worksheet = None
    /\ sheet_iter = NoIter
    /\ charts = [s \in AllSheets |-> <<>>]
    /\ styles = <<>>
    /\ formula_values = [s \in AllSheets |-> <<>>]
    /\ last = [op |-> "init"]

\* sheet.add_value(value, row, col): the one free-standing value of the
\* sheet is added, or replaced at its position
AddValueCached ==
    \E v \in CachedValues, p \in CachedPositions :
        /\ \A i \in 1..Len(values["Sheet1"]) :
              values["Sheet1"][i].row = p[1] /\ values["Sheet1"][i].col = p[2]
        /\ AddValue("Sheet1", v, p[1], p[2])

\* list(sheet.iterrows(workbook))
IterrowsCached == Iterrows("Sheet1", TRUE)

NextCached == AddValueCached \/ IterrowsCached

SpecCached == InitCached /\ [][NextCached]_vars

\* the expression x written at sheet position key and the dict d: an entry
\* equal to the value of x when x has one, no entry when it has none
EntryOf(d, key, x) ==
    IF has_value(x) THEN key \in DOMAIN d /\ d[key] = Expression_value(x)
    ELSE key \notin DOMAIN d

\* the sheet position of data cell p of the table registered as item: table
\* top + header_height + data row, table left + index width + data column
SheetPosition(item, p) ==
    <<item.row + header_height(item.table) + p[1],
      item.col + row_labels_width(item.table) + p[2]>>

\* the expressions with a known value that the tables and the free-standing
\* values have at sheet position key
ValuedAt(items, vals, key) ==
    UNION {{items[k].table.cells[p[1] + 1][p[2] + 1].e :
              p \in {q \in DataCells(items[k].table) :
                       /\ SheetPosition(items[k], q) = key
                       /\ IsExpr(items[k].table.cells[q[1] + 1][q[2] + 1])
                       /\ has_value(items[k].table.cells[q[1] + 1][q[2] + 1].e)}} :
             k \in 1..Len(items)}
    \cup {Unwrap(vals[i].value).e :
            i \in {j \in 1..Len(vals) :
                     /\ <<vals[j].row, vals[j].col>> = key
                     /\ IsExpr(Unwrap(vals[j].value))
                     /\ has_value(Unwrap(vals[j].value).e)}}

\* the dict d is as stated for the tables items and the free-standing
\* values vals: an entry for every expression with a known value, at its
\* position and equal to its value, and no other entry
AsStated(d, items, vals) ==
    /\ \A k \in 1..Len(items) : \A p \in DataCells(items[k].table) :
          IsExpr(items[k].table.cells[p[1] + 1][p[2] + 1]) =>
              EntryOf(d, SheetPosition(items[k], p),
                      items[k].table.cells[p[1] + 1][p[2] + 1].e)
    /\ \A i \in 1..Len(vals) :
          IsExpr(Unwrap(vals[i].value)) =>
              EntryOf(d, <<vals[i].row, vals[i].col>>, Unwrap(vals[i].value).e)
    /\ \A key \in DOMAIN d : ValuedAt(items, vals, key) # {}

\* a free-standing value of vals lies on a data cell of a table of items
\* that holds an expression
ValueOnExpression(items, vals) ==
    \E i \in 1..Len(vals), k \in 1..Len(items) :
        \E p \in DataCells(items[k].table) :
            /\ SheetPosition(items[k], p) = <<vals[i].row, vals[i].col>>
            /\ IsExpr(items[k].table.cells[p[1] + 1][p[2] + 1])

\* C26: after an iterrows pass the precomputed-value map holds, for every
\* table cell and free-standing value that is an Expression carrying a known
\* value, an entry keyed by the cell's absolute sheet (row, col) equal to
\* that value, and no entry for expressions without a known value or left
\* over from an earlier pass.
C26_PrecomputedValues ==
    (last.op = "iterrows" /\ last.result.ok) =>
        AsStated(formula_values[last.ws], tables[last.ws], values[last.ws])

\* What the code keeps: the map is as stated whenever no free-standing value
\* lies on an expression of a table, and in every case each entry is the
\* value of an expression with a known value at its position.
C26_WhenApart ==
    (last.op = "iterrows" /\ last.result.ok) =>
        /\ ~ValueOnExpression(tables[last.ws], values[last.ws]) =>
              AsStated(formula_values[last.ws], tables[last.ws], values[last.ws])
        /\ \A key \in DOMAIN formula_values[last.ws] :
              formula_values[last.ws][key]
                  \in {Expression_value(x) :
                         x \in ValuedAt(tables[last.ws], values[last.ws], key)}

\* add_value(Formula("NOW"), 2, 2) over the third data row of col_3, which
\* holds Cell("col_1", value=6): the sheet shows =NOW() there and the map
\* gives it the value 6
C26_FailingInput ==
    /\ last.op = "iterrows"
    /\ last.result.ok
    /\ tables["Sheet1"][1].row = 0
    /\ tables["Sheet1"][1].table =
          DocTable(WithValue(Cell(<<"col_1">>, NoLabel, 0, None), Num(6)), FALSE, FALSE)
    /\ values["Sheet1"] = <<[row |-> 2, col |-> 2, value |-> Expr(Formula("NOW", <<>>))]>>
    /\ last.result.val[3][3] = Str("=NOW()")
    /\ <<2, 2>> \in DOMAIN formula_values["Sheet1"]
    /\ formula_values["Sheet1"][<<2, 2>>] = Num(6)

\* a pass over the table at row MaxTop with its header and its index: the
\* folded 6 + 3 of the first data row is kept under (MaxTop + 1, 3)
C26_KeyWitness ==
    /\ last.op = "iterrows"
    /\ last.result.ok
    /\ tables["Sheet1"][1].row = MaxTop
    /\ tables["Sheet1"][1].table.include_columns
    /\ tables["Sheet1"][1].table.include_index
    /\ <<MaxTop + 1, 3>> \in DOMAIN formula_values["Sheet1"]
    /\ formula_values["Sheet1"][<<MaxTop + 1, 3>>] = Num(9)
    /\ last.result.val[MaxTop + 2][4] = Str("=6+3")

\* the value at (1, 0) had an entry after the pass before; it was replaced
\* by a formula without a value and the entry is gone
C26_RebuiltWitness ==
    /\ last.op = "iterrows"
    /\ last.result.ok
    /\ <<1, 0>> \in DOMAIN last.prev_formula_values
    /\ values["Sheet1"] = <<[row |-> 1, col |-> 0, value |-> Expr(Formula("NOW", <<>>))]>>
    /\ <<1, 0>> \notin DOMAIN formula_values["Sheet1"]

----------------------------------------------------------------------------
(* worksheet.py: Worksheet._get_all_styles.  A style is the record of its   *)
(* attributes, a dict of styles [map |-> <<[name, style], ...>>], a        *)
(* TableStyle [stripe_colors, border] with stripe_colors = None written as *)
(* the empty tuple, which the code treats alike; a table carries style,    *)
(* column_styles, row_styles, header_style and index_style next to its     *)
(* frame.  The result is the dict {(row, col): style} or the exception.    *)

\* TableStyle(stripe_colors, border)
TableStyle(stripe_colors, border) == [stripe_colors |-> stripe_colors, border |-> border]

\* Table._styles, table.py lines 49-52: 0xEAF1FA and 0xFFFFFF, or no stripes
_styles ==
    [default |-> TableStyle(<<Num(15397370), Num(16777215)>>, Empty),
     plain |-> TableStyle(<<>>, Empty)]

\* Table(name, dataframe, ..., style, column_styles, row_styles,
\* header_style, index_style), table.py lines 79-99, over the frame of t
Styled(t, style, column_styles, row_styles, header_style, index_style) ==
    [style |-> style, column_styles |-> column_styles, row_styles |-> row_styles,
     header_style |-> header_style, index_style |-> index_style] @@ t

\* lines 195-200: CellStyle(bold=bold, bg_color=bg_col, border=border)
_get_style(bold, bg_col, border) ==
    CellStyle(Empty, Empty, Empty, Empty, Empty, bold, Empty, Empty, bg_col,
              Empty, border, Empty, Empty)

\* isinstance(x, dict)
IsDict(x) == "map" \in DOMAIN x

\* d.get(key, default)
DictGet(map, key, default) ==
    IF HasKey(map, key) THEN ItemOf(map, key).style ELSE default

\* labels[i] of a pandas Index, i >= 0 counted from 0
LabelAt(labels, i) ==
    IF i < Len(labels) THEN Ok(labels[i + 1]) ELSE Err("IndexError")

\* the style found under the label, or the exception of the lookup
StyleUnder(map, label) ==
    IF label.ok THEN Ok(DictGet(map, label.val, _get_style(Bool(TRUE), Empty, Empty)))
    ELSE label

\* lines 206-210: the style of the header cell in sheet column c
header_cell_style(t, c) ==
    IF IsDict(t.header_style)
    THEN StyleUnder(t.header_style.map, LabelAt(t.columns, c))
    ELSE Ok(IF t.header_style # Empty THEN t.header_style
            ELSE _get_style(Bool(TRUE), Empty, Empty))

\* lines 215-219: the style of the index cell in sheet row r
index_cell_style(t, r) ==
    IF IsDict(t.index_style)
    THEN StyleUnder(t.index_style.map, LabelAt(t.index, r))
    ELSE Ok(IF t.index_style # Empty THEN t.index_style
            ELSE _get_style(Bool(TRUE), Empty, Empty))

\* lines 204-205: the header cells of the table registered as item
HeaderKeys(item) ==
    (item.row..(item.row + header_height(item.table) - 1))
        \X (item.col..(item.col + width(item.table) - 1))

\* lines 213-214: its index cells
IndexKeys(item) ==
    ((item.row + header_height(item.table))..(item.row + height(item.table) - 1))
        \X (item.col..(item.col + row_labels_width(item.table) - 1))

\* lines 204-211
AfterHeader(d, item) ==
    IF \E p \in HeaderKeys(item) : ~header_cell_style(item.table, p[2]).ok
    THEN Err("IndexError")
    ELSE Ok(Updated(d, {[key |-> p, value |-> header_cell_style(item.table, p[2]).val] :
                          p \in HeaderKeys(item)}))

\* lines 213-220
AfterIndex(d, item) ==
    IF \E p \in IndexKeys(item) : ~index_cell_style(item.table, p[1]).ok
    THEN Err("IndexError")
    ELSE Ok(Updated(d, {[key |-> p, value |-> index_cell_style(item.table, p[1]).val] :
                          p \in IndexKeys(item)}))

\* the truth value of a border: None and 0 are false
HasBorder(border) == border # Empty /\ border.v # 0

\* lines 223-226 and 231: bg_cols[i % num_bg_cols] if bg_cols else None
StripeColor(ts, i) ==
    IF Len(ts.stripe_colors) > 0
    THEN ts.stripe_colors[(i % Len(ts.stripe_colors)) + 1]
    ELSE Empty

\* lines 233-234: the style laid under what the cell at p has
Under(d, p, style) == IF p \in DOMAIN d THEN Merged(style, d[p]) ELSE style

\* lines 243-244 with the operands of + exchanged
OverExchanged(d, p, style) == IF p \in DOMAIN d THEN Merged(style, d[p]) ELSE style

\* lines 243-244, 254-255 and 265-266: the style laid over what the cell at
\* p has
Over(d, p, style) == IF p \in DOMAIN d THEN Merged(d[p], style) ELSE style

\* lines 222-235: the stripes and the border, from the first data row down
\* and over every column of the table
AfterStripes(d, item) ==
    IF ~(Len(item.table.style.stripe_colors) > 0 \/ HasBorder(item.table.style.border))
    THEN d
    ELSE Updated(d,
           {[key |-> p,
             value |-> Under(d, p,
                             _get_style(Empty,
                                        StripeColor(item.table.style,
                                                    p[1] - item.row
                                                        - header_height(item.table)),
                                        item.table.style.border))] :
              p \in ((item.row + header_height(item.table))
                         ..(item.row + height(item.table) - 1))
                    \X (item.col..(item.col + width(item.table) - 1))})

\* lines 242-246: one column style over the data rows of its column
ColumnStyled(d, item, style, offset) ==
    IF ~offset.ok THEN d
    ELSE Updated(d, {[key |-> <<r, item.col + offset.val>>,
                      value |-> Over(d, <<r, item.col + offset.val>>, style)] :
                       r \in (item.row + header_height(item.table))
                                 ..(item.row + height(item.table) - 1)})

RECURSIVE AfterColumnStyles(_, _, _)
\* lines 237-246
AfterColumnStyles(d, item, column_styles) ==
    IF Len(column_styles) = 0 THEN d
    ELSE AfterColumnStyles(
            ColumnStyled(d, item, Head(column_styles).style,
                         get_column_offset(item.table, Head(column_styles).name)),
            item, Tail(column_styles))

\* lines 253-257: one row style over the data columns of its row
RowStyled(d, item, style, offset) ==
    IF ~offset.ok THEN d
    ELSE Updated(d, {[key |-> <<item.row + offset.val, c>>,
                      value |-> Over(d, <<item.row + offset.val, c>>, style)] :
                       c \in (item.col + row_labels_width(item.table))
                                 ..(item.col + width(item.table) - 1)})

RECURSIVE AfterRowStyles(_, _, _)
\* lines 248-257
AfterRowStyles(d, item, row_styles) ==
    IF Len(row_styles) = 0 THEN d
    ELSE AfterRowStyles(
            RowStyled(d, item, Head(row_styles).style,
                      get_row_offset(item.table, Head(row_styles).name)),
            item, Tail(row_styles))

\* Table.cell_styles, table.py lines 126-136: the data cells, (r, c) counted
\* from 0, that are a Value with a style
cell_styles(t) ==
    {p \in DataCells(t) :
        /\ t.cells[p[1] + 1][p[2] + 1].k = "value"
        /\ t.cells[p[1] + 1][p[2] + 1].style # Empty}

\* lines 259-268 for the cell of row label and column label of data cell p
CellKey(item, p) ==
    <<item.row + get_row_offset(item.table, item.table.index[p[1] + 1]).val,
      item.col + get_column_offset(item.table, item.table.columns[p[2] + 1]).val>>

\* lines 259-268
AfterCellStyles(d, item) ==
    Updated(d, {[key |-> CellKey(item, p),
                 value |-> Over(d, CellKey(item, p),
                                item.table.cells[p[1] + 1][p[2] + 1].style)] :
                  p \in cell_styles(item.table)})

\* lines 222-268 for one table
AfterLayers(d, item) ==
    AfterCellStyles(
        AfterRowStyles(
            AfterColumnStyles(AfterStripes(d, item), item, item.table.column_styles),
            item, item.table.row_styles),
        item)

\* lines 213-268 once the header cells are in h
IndexThenLayers(h, item) ==
    IF ~h.ok THEN h
    ELSE IF ~AfterIndex(h.val, item).ok THEN AfterIndex(h.val, item)
    ELSE Ok(AfterLayers(AfterIndex(h.val, item).val, item))

RECURSIVE StylesOfTables(_, _, _)
\* lines 203-268: the loop over the tables, from the k-th
StylesOfTables(d, items, k) ==
    IF ~d.ok \/ k > Len(items) THEN d
    ELSE StylesOfTables(IndexThenLayers(AfterHeader(d.val, items[k]), items[k]),
                        items, k + 1)

RECURSIVE AfterValues(_, _, _)
\* lines 270-276: the styles of the free-standing values, from the i-th
AfterValues(d, vals, i) ==
    IF i > Len(vals) THEN d
    ELSE IF vals[i].value.k = "value" /\ vals[i].value.style # Empty
    THEN AfterValues(Updated(d, {[key |-> <<vals[i].row, vals[i].col>>,
                                  value |-> Under(d, <<vals[i].row, vals[i].col>>,
                                                  vals[i].value.style)]}),
                     vals, i + 1)
    ELSE AfterValues(d, vals, i + 1)

\* lines 270-278 once the tables are done
ValuesStyled(d, vals) == IF d.ok THEN Ok(AfterValues(d.val, vals, 1)) ELSE d

\* Worksheet._get_all_styles(): the dict returned or the exception raised
_get_all_styles(items, vals) == ValuesStyled(StylesOfTables(Ok(<<>>), items, 1), vals)

\* ws_styles = self._get_all_styles(), as Worksheet.to_xlsx calls it first
GetAllStyles(ws) ==
    /\ last' = [op |-> "_get_all_styles", ws |-> ws,
                result |-> _get_all_styles(tables[ws], values[ws])]
    /\ UNCHANGED <<worksheets, tables, values, next_row, active_table,
                   active_worksheet, sheet_iter, charts, styles, formula_values>>

----------------------------------------------------------------------------
(* The docstring table with styles: a table style, a header style and an   *)
(* index style (one style or a map by label), column styles, a row style   *)
(* and a styled Value in its middle cell, placed anywhere on Sheet1 next   *)
(* to a plain table, with or without a styled free-standing value.         *)

\* CellStyle(decimal_places=2, bold=True, text_color=1, bg_color=0xFF)
ColumnStyle ==
    CellStyle(Empty, Num(2), Empty, Empty, Empty, Bool(TRUE), Empty, Num(1),
              Num(255), Empty, Empty, Empty, Empty)

\* CellStyle(decimal_places=0, text_color=2)
RowStyle ==
    CellStyle(Empty, Num(0), Empty, Empty, Empty, Empty, Empty, Num(2),
              Empty, Empty, Empty, Empty, Empty)

\* CellStyle(bold=False, text_color=3)
ValueStyle ==
    CellStyle(Empty, Empty, Empty, Empty, Empty, Bool(FALSE), Empty, Num(3),
              Empty, Empty, Empty, Empty, Empty)

\* CellStyle(bold=True, bg_color=0xC0C0C0)
HeadStyle ==
    CellStyle(Empty, Empty, Empty, Empty, Empty, Bool(TRUE), Empty, Empty,
              Num(12632256), Empty, Empty, Empty, Empty)

\* CellStyle(text_color=4, align="left")
SideStyle ==
    CellStyle(Empty, Empty, Empty, Empty, Empty, Empty, Empty, Num(4),
              Empty, Empty, Empty, Str("left"), Empty)

\* style="default", style="plain" and TableStyle(stripe_colors=None, border=1)
TableStyles == {_styles.default, _styles.plain, TableStyle(<<>>, Num(1))}

\* header_style: left out, one style, {"col_2": style}
HeaderStyles == {Empty, HeadStyle, [map |-> <<[name |-> <<"col_2">>, style |-> HeadStyle]>>]}

\* index_style: left out, one style, {"1": style}
IndexStyles == {Empty, SideStyle, [map |-> <<[name |-> <<"1">>, style |-> SideStyle]>>]}

\* column_styles: left out, or one for a column the frame does not have and
\* one for col_2
ColumnStyles ==
    {<<>>, <<[name |-> <<"col_9">>, style |-> RowStyle],
             [name |-> <<"col_2">>, style |-> ColumnStyle]>>}

\* row_styles: left out, or one for the row labelled 1
RowStyles == {<<>>, <<[name |-> <<"1">>, style |-> RowStyle]>>}

\* the docstring frame, its middle cell (row 1, col_2) a Value with a style
\* when styled
StyledFrame(include_columns, include_index, styled) ==
    [DocTable(DocSum, include_columns, include_index) EXCEPT
        !.cells[2][2] = IF styled THEN Value(Num(5), ValueStyle) ELSE Num(5)]

InitStyles ==
    /\ worksheets = <<"Sheet1">>
    /\ \E include_columns \in BOOLEAN, include_index \in BOOLEAN, styled \in BOOLEAN,
          style \in TableStyles, header_style \in HeaderStyles,
          index_style \in IndexStyles, column_styles \in ColumnStyles,
          row_styles \in RowStyles, top \in {0, MaxTop}, left \in {0, MaxLeft} :
          LET t == Styled(StyledFrame(include_columns, include_index, styled),
                          style, column_styles, row_styles, header_style, index_style)
          IN  /\ tables = [s \in AllSheets |->
                             IF s = "Sheet1"
                             THEN <<[name |-> t.name, table |-> t, row |-> top,
                                     col |-> left, has_row |-> TRUE,
                                     row_spaces |-> 1],
                                    [name |-> "other",
                                     table |-> Styled(OtherTable, _styles.plain,
                                                      <<>>, <<>>, Empty, Empty),
                                     row |-> 0, col |-> left + width(t) + 1,
                                     has_row |-> TRUE, row_spaces |-> 1]>>
                             ELSE <<>>]
              /\ next_row = [s \in AllSheets |->
                               IF s = "Sheet1" THEN top + height(t) + 1 ELSE 0]
    /\ \E vals \in {<<>>, <<[row |-> MaxTop + 1, col |-> MaxLeft + 1,
                             value |-> Value(Str("x"), SideStyle)]>>} :
          values = [s \in AllSheets |-> IF s = "Sheet1" THEN vals ELSE <<>>]
    /\ active_table = NoTable
    /\ active_worksheet = None
    /\ sheet_iter = NoIter
    /\ charts = [s \in AllSheets |-> <<>>]
    /\ styles = <<>>
    /\ formula_values = [s \in AllSheets |-> <<>>]
    /\ last = [op |-> "init"]

\* sheet._get_all_styles()
GetAllStylesSheet == GetAllStyles("Sheet1")

NextStyles == GetAllStylesSheet

SpecStyles == InitStyles /\ [][NextStyles]_vars

\* the attributes of a CellStyle
Fields ==
    {"is_percentage", "decimal_places", "date_format", "thousands_sep",
     "__excel_number_format", "bold", "size", "text_color", "bg_color",
     "text_wrap", "border", "align", "valign"}

\* the styled table of Sheet1 and where it is
TheItem == tables["Sheet1"][1]

\* a free-standing value lies at sheet position key
ValueAt(key) ==
    \E i \in 1..Len(values["Sheet1"]) :
        <<values["Sheet1"][i].row, values["Sheet1"][i].col>> = key

\* the style mapped to the label, or the style given, or the bold default
StyleFor(style, label) ==
    IF IsDict(style)
    THEN (IF HasKey(style.map, label) THEN ItemOf(style.map, label).style
          ELSE [f \in Fields |-> IF f = "bold" THEN Bool(TRUE) ELSE Empty])
    ELSE IF style # Empty THEN style
    ELSE [f \in Fields |-> IF f = "bold" THEN Bool(TRUE) ELSE Empty]

\* the stripe and border layer of data row i, counted from 0, of a table
\* whose style is ts; no layer when ts has neither stripes nor a border
StripeLayers(ts, i) ==
    IF Len(ts.stripe_colors) = 0 /\ ~HasBorder(ts.border) THEN <<>>
    ELSE <<[f \in Fields |->
              IF f = "bg_color" /\ Len(ts.stripe_colors) > 0
              THEN ts.stripe_colors[(i % Len(ts.stripe_colors)) + 1]
              ELSE IF f = "border" THEN ts.border
              ELSE Empty]>>

\* the two styles agree on every attribute
SameFields(x, y) == \A f \in Fields : x[f] = y[f]

\* the layers merged, the first being the most specific: every attribute is
\* that of the first layer that sets it
FirstSet(layers, f) ==
    IF \E k \in 1..Len(layers) : layers[k][f] # Empty
    THEN layers[CHOOSE k \in 1..Len(layers) :
                   /\ layers[k][f] # Empty
                   /\ \A j \in 1..(k - 1) : layers[j][f] = Empty][f]
    ELSE Empty

\* the dict d has at key the layers merged, or nothing when there is no layer
HasLayers(d, key, layers) ==
    IF Len(layers) = 0 THEN key \notin DOMAIN d
    ELSE key \in DOMAIN d /\ \A f \in Fields : d[key][f] = FirstSet(layers, f)

\* the header cells of the table are as stated: above data column j the
\* style for its label and, when the header style is no map, the same style
\* above the index too
HeaderAsStated(d, item) ==
    \A r \in item.row..(item.row + header_height(item.table) - 1) :
        /\ \A j \in 0..(Len(item.table.columns) - 1) :
              LET key == <<r, item.col + row_labels_width(item.table) + j>>
              IN  ~ValueAt(key) =>
                     /\ key \in DOMAIN d
                     /\ SameFields(d[key], StyleFor(item.table.header_style,
                                                    item.table.columns[j + 1]))
        /\ ~IsDict(item.table.header_style) =>
              \A c \in item.col..(item.col + row_labels_width(item.table) - 1) :
                  ~ValueAt(<<r, c>>) =>
                     /\ <<r, c>> \in DOMAIN d
                     /\ SameFields(d[<<r, c>>], StyleFor(item.table.header_style, <<>>))

\* the index cells of the table are as stated: beside data row i the style
\* for its label, over the stripe and the border of the row
IndexAsStated(d, item) ==
    \A i \in 0..(Len(item.table.index) - 1) :
        \A c \in item.col..(item.col + row_labels_width(item.table) - 1) :
            LET key == <<item.row + header_height(item.table) + i, c>>
            IN  ~ValueAt(key) =>
                    HasLayers(d, key,
                              <<StyleFor(item.table.index_style, item.table.index[i + 1])>>
                                  \o StripeLayers(item.table.style, i))

\* C27: in style collection, for a table placed at any (row, col) with or
\* without an index column, every header cell gets the explicit header
\* style or the bold default, and when the header style is a per-column map
\* the header cell above column label L gets the style mapped to L (the
\* bold default if L is not in the map); index cells are treated the same
\* way with the index style and the row labels.
C27_HeaderAndIndexStyles ==
    last.op = "_get_all_styles" =>
        /\ last.result.ok
        /\ HeaderAsStated(last.result.val, TheItem)
        /\ IndexAsStated(last.result.val, TheItem)

\* What the code keeps: when the collection returns, the header cells and
\* the index cells are as stated; it returns whenever neither style is a
\* map.
C27_WhenReturned ==
    last.op = "_get_all_styles" =>
        /\ last.result.ok =>
              /\ HeaderAsStated(last.result.val, TheItem)
              /\ IndexAsStated(last.result.val, TheItem)
        /\ (~IsDict(TheItem.table.header_style) /\ ~IsDict(TheItem.table.index_style))
              => last.result.ok
        /\ ~last.result.ok => last.result = Err("IndexError")

\* Table("table", df, header_style={"col_2": style}) put at column MaxLeft:
\* the collection looks for the label of sheet column MaxLeft + 2, one past
\* the last column of the frame
C27_FailingInput ==
    /\ last.op = "_get_all_styles"
    /\ IsDict(TheItem.table.header_style)
    /\ ~IsDict(TheItem.table.index_style)
    /\ TheItem.table.include_columns
    /\ ~TheItem.table.include_index
    /\ TheItem.col = MaxLeft
    /\ last.result = Err("IndexError")

\* index_style={"1": style} on a table with its header, at the origin
C27_IndexMap ==
    /\ last.op = "_get_all_styles"
    /\ IsDict(TheItem.table.index_style)
    /\ ~IsDict(TheItem.table.header_style)
    /\ TheItem.table.include_columns
    /\ TheItem.table.include_index
    /\ TheItem.row = 0 /\ TheItem.col = 0
    /\ last.result = Err("IndexError")

\* the header map on a table without index at column 0: col_2 has the
\* mapped style, col_1 the bold default
C27_MapWitness ==
    /\ last.op = "_get_all_styles"
    /\ last.result.ok
    /\ IsDict(TheItem.table.header_style)
    /\ TheItem.table.include_columns
    /\ TheItem.row = MaxTop
    /\ last.result.val[<<MaxTop, 1>>] = HeadStyle
    /\ last.result.val[<<MaxTop, 0>>] = _get_style(Bool(TRUE), Empty, Empty)

\* the layers of data cell (i, j), counted from 0, of table t, the most
\* specific first: the style of its Value, of its row, of its column, and
\* the stripe and border of the table
LayersOf(t, i, j) ==
    (IF t.cells[i + 1][j + 1].k = "value" /\ t.cells[i + 1][j + 1].style # Empty
     THEN <<t.cells[i + 1][j + 1].style>> ELSE <<>>)
    \o (IF HasKey(t.row_styles, t.index[i + 1])
        THEN <<ItemOf(t.row_styles, t.index[i + 1]).style>> ELSE <<>>)
    \o (IF HasKey(t.column_styles, t.columns[j + 1])
        THEN <<ItemOf(t.column_styles, t.columns[j + 1]).style>> ELSE <<>>)
    \o StripeLayers(t.style, i)

\* C28: for a data cell of a table, the collected style has in each field
\* the value set by the most specific layer that sets it non-null, in the
\* order cell style over row style over column style over the table-wide
\* stripe and border style; the stripe background of the i-th data row is
\* stripe_colors[i mod number of stripe colors]; header rows receive no
\* stripe.
C28_LayerPrecedence ==
    (last.op = "_get_all_styles" /\ last.result.ok) =>
        /\ \A i \in 0..(Len(TheItem.table.index) - 1) :
              \A j \in 0..(Len(TheItem.table.columns) - 1) :
                  LET key == <<TheItem.row + header_height(TheItem.table) + i,
                               TheItem.col + row_labels_width(TheItem.table) + j>>
                  IN  ~ValueAt(key) =>
                         HasLayers(last.result.val, key, LayersOf(TheItem.table, i, j))
        /\ \A r \in TheItem.row..(TheItem.row + header_height(TheItem.table) - 1) :
              \A c \in TheItem.col..(TheItem.col + width(TheItem.table) - 1) :
                  (~ValueAt(<<r, c>>) /\ ~IsDict(TheItem.table.header_style)) =>
                      last.result.val[<<r, c>>].bg_color
                          = StyleFor(TheItem.table.header_style, <<>>).bg_color

\* the middle cell of the table under all four layers: text colour and
\* bold of its Value, decimal places of its row, background of its column
\* over the second stripe
C28_Witness ==
    /\ last.op = "_get_all_styles"
    /\ last.result.ok
    /\ TheItem.row = MaxTop /\ TheItem.col = MaxLeft
    /\ TheItem.table.include_columns /\ TheItem.table.include_index
    /\ TheItem.table.style = _styles.default
    /\ Len(LayersOf(TheItem.table, 1, 1)) = 4
    /\ last.result.val[<<MaxTop + 2, MaxLeft + 2>>] =
          CellStyle(Empty, Num(0), Empty, Empty, Empty, Bool(FALSE), Empty, Num(3),
                    Num(255), Empty, Empty, Empty, Empty)
    /\ last.result.val[<<MaxTop + 2, MaxLeft + 3>>].bg_color = Num(16777215)
    /\ last.result.val[<<MaxTop + 3, MaxLeft + 3>>].bg_color = Num(15397370)

====
